---- MODULE Spec2Model ----
(***************************************************************************)
(* Model of the recap presentation engine of static/js/recap.js: the       *)
(* scroll-position tracker (checkSlideChange), the value animations        *)
(* (count-up, text reveal, crypto reveal), the particle overlay            *)
(* (rain, fireworks, starfield) and the navigation handlers.               *)
(*                                                                         *)
(* Conventions.  A text is a sequence of one-character strings.  Time is   *)
(* counted in units of TimeUnitMs milliseconds.  JavaScript null is        *)
(* NullIdx for an index, NullHandle for a requestAnimationFrame handle,    *)
(* NullTime for a timestamp and "null" for an effect tag.  Visibilities    *)
(* are exact rationals vis / slideWidth (no floating-point rounding).      *)
(* The browser runs all callbacks of one frame back to back: BeginFrame    *)
(* moves rafQ to frameQ and RunCallback runs the head of frameQ; no event  *)
(* handler runs while frameQ is non-empty.                                 *)
(***************************************************************************)
EXTENDS Integers, Sequences, FiniteSets, Bags, TLC

----------------------------------------------------------------------------
(* Bounds of the model *)

\* largest number of time-advancing frame steps (of FrameStep time units each)
MaxTicks == 3
\* largest number of callbacks pending in the frame queue
MaxPending == 4
\* largest number of chained secondary firework bursts in one draw
MaxExtraBursts == 1
\* largest number of input events handled between two frames
MaxEventsPerFrame == 2

(* Program constants *)

\* one time unit in milliseconds
TimeUnitMs == 10
\* runCountUpEffect: const duration = 1500
CountUpDuration == 150
\* runTextRevealEffect: effect.scroll_duration || 1000
DefaultScrollDuration == 100
\* runCryptoRevealEffect: effect.item_duration || 800
DefaultItemDuration == 80
\* runCryptoRevealEffect: effect.stagger_delay || 150
DefaultStaggerDelay == 15
\* the resize listener: setTimeout(..., 150)
ResizeDelay == 15
\* startEmojiRain: setTimeout(..., 250)
RainFadeDelay == 25
\* time between two frames (250 ms)
FrameStep == RainFadeDelay
\* animate*: dt = Math.min(..., 0.05), in milliseconds
MaxDtMs == 50
\* animateEmojiFireworks: fireworksParticles.length < 28
FireworksBudget == 28
\* animateEmojiFireworks: const gravity = 320
Gravity == 320
\* animateEmojiFireworks: fireworksCooldown = 280 + Math.random() * 420
MinCooldown == 280
MaxCooldown == 700

NullIdx == -1
NullHandle == 0
NullTime == -1
\* timestamp of the frame in which the presentation is shown
StartTime == 1

\* window.innerWidth / window.innerHeight and slidesWrapper.offsetWidth
InnerWidth == 1024
InnerHeight == 100
SlideWidth == 10

----------------------------------------------------------------------------
(* Generic helpers *)

Min(a, b) == IF a < b THEN a ELSE b
Max(a, b) == IF a > b THEN a ELSE b
Abs(a) == IF a < 0 THEN -a ELSE a

\* F(x), with x evaluated once
Let(x, F(_)) == CHOOSE r \in {F(v) : v \in {x}} : TRUE

RECURSIVE Pow10(_)
Pow10(n) == IF n = 0 THEN 1 ELSE 10 * Pow10(n - 1)

Digits == <<"0", "1", "2", "3", "4", "5", "6", "7", "8", "9">>
DigitSet == {Digits[i] : i \in 1..10}
DigitVal(c) == (CHOOSE i \in 1..10 : Digits[i] = c) - 1

Letters == {"a", "b", "c", "h", "r", "s", "x", "y", "z", "A", "B", "Z"}
\* /[A-Za-z0-9]/.test(ch)
IsAlnum(c) == c \in DigitSet \cup Letters
\* c.trim().length > 0
IsBlank(c) == c \in {" ", "\t"}

\* the suffix of s starting at position i (1-based)
From(seq, i) == Let(seq, LAMBDA s :
    SubSeq(s, i, Len(s)))

\* length of the longest prefix of s whose characters all satisfy membership in S
RECURSIVE RunLen(_, _)
RunLen(seq, S) == Let(seq, LAMBDA s :
    IF s = <<>> \/ Head(s) \notin S THEN 0 ELSE 1 + RunLen(Tail(s), S))

----------------------------------------------------------------------------
(* Variable substitution: text.replace(/%\{([^}]+)\}/g, ...) *)

\* position of the first "}" in s, or 0
RECURSIVE IndexOfClose(_, _)
IndexOfClose(seq, i) == Let(seq, LAMBDA s :
    IF i > Len(s) THEN 0
    ELSE IF s[i] = "}" THEN i ELSE IndexOfClose(s, i + 1))

\* the properties a data record inherits from Object.prototype, as the texts that
\* String.prototype.replace makes of them (here: constructor)
ObjectPrototype ==
    (<<"c", "o", "n", "s", "t", "r", "u", "c", "t", "o", "r">> :>
        <<"f", "u", "n", "c", "t", "i", "o", "n", " ", "O", "b", "j", "e", "c", "t", "(", ")",
          " ", "{", " ", "[", "n", "a", "t", "i", "v", "e", " ", "c", "o", "d", "e", "]", " ", "}">>)
\* data[varName] !== undefined: an own property of the record or an inherited one
HasProperty(data, varName) == varName \in DOMAIN data \/ varName \in DOMAIN ObjectPrototype
\* data[varName]
GetProperty(data, varName) ==
    IF varName \in DOMAIN data THEN data[varName] ELSE ObjectPrototype[varName]

\* data is a function from variable names (texts) to values (texts)
RECURSIVE substituteVariables(_, _)
substituteVariables(string, data) == Let(string, LAMBDA text :
    IF text = <<>> THEN <<>>
    ELSE LET close == IndexOfClose(text, 3)
         IN IF Len(text) >= 4 /\ text[1] = "%" /\ text[2] = "{" /\ close >= 4
            THEN LET varName == SubSeq(text, 3, close - 1)
                     match == SubSeq(text, 1, close)
                 IN (IF HasProperty(data, varName) THEN GetProperty(data, varName) ELSE match)
                    \o substituteVariables(From(text, close + 1), data)
            ELSE <<Head(text)>> \o substituteVariables(Tail(text), data))

----------------------------------------------------------------------------
(* Count-up number parsing and formatting *)

\* the value of a text of digits
RECURSIVE DigitsToNat(_)
DigitsToNat(seq) == Let(seq, LAMBDA s :
    IF s = <<>> THEN 0 ELSE DigitsToNat(SubSeq(s, 1, Len(s) - 1)) * 10 + DigitVal(s[Len(s)]))

RECURSIVE NatToDigits(_)
NatToDigits(number) == Let(number, LAMBDA n :
    IF n < 10 THEN <<Digits[n + 1]>> ELSE NatToDigits(n \div 10) \o <<Digits[(n % 10) + 1]>>)

\* n written with at least w digits
RECURSIVE PadDigits(_, _)
PadDigits(n, w) ==
    LET d == NatToDigits(n)
    IN IF Len(d) >= w THEN d ELSE <<"0">> \o PadDigits(n, w - 1)

\* parseFloat(text) of a text without a digit: 1 for Infinity, -1 for -Infinity, 0 for NaN
\* (leading white space and one sign are skipped)
InfinityWord == <<"I", "n", "f", "i", "n", "i", "t", "y">>
ParsesAsInfinity(string) == Let(string, LAMBDA text :
    Let(From(text, RunLen(text, {" ", "\t"}) + 1), LAMBDA trimmed :
    LET signed == trimmed # <<>> /\ Head(trimmed) \in {"+", "-"}
        word == IF signed THEN Tail(trimmed) ELSE trimmed
    IN IF Len(word) >= Len(InfinityWord) /\ SubSeq(word, 1, Len(InfinityWord)) = InfinityWord
       THEN (IF signed /\ Head(trimmed) = "-" THEN -1 ELSE 1)
       ELSE 0))

\* text.match(/^([^0-9.-]*)(-?\d*\.?\d+)(.*)$/): the parts, or matched = FALSE.
\* value = mant / 10^decimals is parseFloat(numStr); without a match the value is
\* parseFloat(text) || 0, which is 0 for NaN and infinite (inf = 1 or -1) for Infinity.
parseNumberParts(string) == Let(string, LAMBDA text :
    \* p: length of the prefix [^0-9.-]*
    Let(RunLen(text, {c \in {text[i] : i \in 1..Len(text)} : c \notin DigitSet \cup {".", "-"}}),
        LAMBDA p :
    Let(From(text, p + 1), LAMBDA rest :
    Let(rest # <<>> /\ Head(rest) = "-", LAMBDA neg :
    Let(IF neg THEN Tail(rest) ELSE rest, LAMBDA body :
    \* m: number of integer digits; k: number of fraction digits
    Let(RunLen(body, DigitSet), LAMBDA m :
    Let(IF From(body, m + 1) # <<>> /\ Head(From(body, m + 1)) = "."
        THEN RunLen(Tail(From(body, m + 1)), DigitSet) ELSE 0, LAMBDA k :
    LET numLen == IF k > 0 THEN m + 1 + k ELSE m
        mant == DigitsToNat(SubSeq(body, 1, m)) * Pow10(k)
                  + (IF k > 0 THEN DigitsToNat(SubSeq(body, m + 2, m + 1 + k)) ELSE 0)
    IN IF m = 0 /\ k = 0
       THEN [matched |-> FALSE, mant |-> 0, inf |-> ParsesAsInfinity(text), decimals |-> 0,
             prefix |-> <<>>, suffix |-> <<>>]
       ELSE [matched |-> TRUE,
             mant |-> IF neg THEN -mant ELSE mant,
             inf |-> 0,
             decimals |-> k,
             prefix |-> SubSeq(text, 1, p),
             suffix |-> From(body, numLen + 1)])))))))

\* eased * den for progress = Min(elapsed / duration, 1): 1 - (1 - progress)^3
EaseNum(elapsed, duration) ==
    LET e == Min(Max(elapsed, 0), duration)
        r == duration - e
    IN duration * duration * duration - r * r * r
EaseDen(duration) == duration * duration * duration

\* current.toFixed(precision) for precision > 0, Math.round(current).toString() otherwise,
\* where current = num / den (den > 0) counted in units of 10^-precision
FormatNumber(num, den, precision) ==
    LET negative == num < 0
        \* toFixed rounds the magnitude half up; Math.round rounds half toward +infinity
        units == IF precision > 0
                 THEN (2 * Abs(num) + den) \div (2 * den)
                 ELSE Abs((2 * num + den) \div (2 * den))
        sign == IF precision > 0 THEN negative ELSE (2 * num + den) \div (2 * den) < 0
        int == units \div Pow10(precision)
        frac == units % Pow10(precision)
    IN (IF sign THEN <<"-">> ELSE <<>>)
       \o NatToDigits(int)
       \o (IF precision > 0 THEN <<".">> \o PadDigits(frac, precision) ELSE <<>>)

----------------------------------------------------------------------------
(* Slide descriptors (cards of recap-style.json) and the data record *)

\* an absent (undefined) text-valued option
Undefined == <<"undefined">>

Card(type) ==
    [type |-> type, hasEffect |-> TRUE, title |-> <<"T">>,
     start_num |-> <<"0">>, end_num |-> <<"0">>, step_decimals |-> 0,
     prefix |-> Undefined, suffix |-> Undefined,
     reveal_scroll_options |-> <<>>, reveal_text |-> <<>>, scroll_duration |-> 0,
     items |-> <<>>, item_duration |-> 0, stagger_delay |-> 0, crypto_chars |-> <<>>,
     emjEffect |-> "", emj |-> <<>>]

\* buildSlideElements: the synthesized title slide
TitleCard == [Card("static") EXCEPT !.title = <<"R">>, !.emj = <<"w">>]

\* the data record (backendData): variable name -> value
RecapData == (<<"n">> :> <<"1", "2">>)

\* effect.crypto_chars || '...': the default alphabets, given by their first and last glyph
\* (a draw of Math.random() is 0 or just below 1, so only these two are ever picked)
BuildDefaultCryptoChars == <<"A", "?">>
AnimDefaultCryptoChars == <<"#", "+">>

\* .toLowerCase() of an effect tag
ToLower(tag) ==
    CASE tag = "Stars" -> "stars"
      [] tag = "Rain" -> "rain"
      [] OTHER -> tag

----------------------------------------------------------------------------
(* Program state *)

VARIABLES
    slideElements,      \* the slides built by buildSlideElements (dataset of each slide)
    bigText,            \* displayed content of each slide's .slide-big element
    now,                \* Date.now() / frame timestamp, in time units
    scrollLeft,         \* slidesWrapper.scrollLeft
    smoothTarget,       \* destination of the smooth scroll in progress, or NullIdx
    scrollScheduled,    \* initHorizontalScroll: let scrollScheduled
    dragState,          \* initHorizontalScroll: let dragState
    scrollSnapType,     \* slidesWrapper.style.scrollSnapType
    activeSlideIndex,
    targetSlideIndex,
    effectsEnabled,
    activeEmojiIndex,
    activeEmojiEffect,
    emojiAnimationFrame,
    lastEmojiFrame,
    emojiDrops,
    fireworksParticles,
    fireworksCooldown,
    starParticles,
    overlayOpacity,     \* emojiOverlay.style.opacity
    overlayEmojis,      \* emojiOverlay.dataset.emojis
    theme,              \* updateColors: the two slides blended and the blend ratio
    pickerLabel,        \* index whose emoji the .controls-picker shows
    controlsIndex,      \* index last given to setControlsForIndex
    sharedState,        \* runCryptoRevealEffect: the sharedState object of each live run
    rafQ,               \* callbacks registered with requestAnimationFrame
    frameQ,             \* callbacks of the frame being run that have not run yet
    timers,             \* callbacks registered with setTimeout
    events,             \* number of input events handled since the last frame began
    superseded,         \* history: the slides reset since their animation last (re)started
    sinceBurst,         \* history: simulated ms since the last cooldown-gated firework burst
    blend,              \* blendColorsHSV: the arguments of a call and what it returned
    page,               \* #recap-container: what it holds; whether the listeners are attached
    steps,              \* history: the steps to the next slide requested since the start
    lastOp              \* history: what the last handler did

vars == <<slideElements, bigText, now, scrollLeft, smoothTarget, scrollScheduled, dragState,
          scrollSnapType, activeSlideIndex, targetSlideIndex, effectsEnabled,
          activeEmojiIndex, activeEmojiEffect, emojiAnimationFrame, lastEmojiFrame,
          emojiDrops, fireworksParticles, fireworksCooldown, starParticles,
          overlayOpacity, overlayEmojis, theme, pickerLabel, controlsIndex, sharedState,
          rafQ, frameQ, timers, events, superseded, sinceBurst, blend, page, steps, lastOp>>

\* no call of blendColorsHSV under observation
NoBlend == [hex1 |-> <<>>, hex2 |-> <<>>, ratio |-> [n |-> 0, d |-> 1], returned |-> <<>>]

\* what a handler did, recorded while it runs
NoTrace ==
    [op |-> "", activated |-> FALSE, restarted |-> {}, revived |-> {}, resets |-> {},
     switchRequested |-> NullIdx,
     regenerated |-> FALSE, revealed |-> FALSE, wrote |-> FALSE, refed |-> FALSE,
     threw |-> FALSE, spawned |-> FALSE,
     switchSaw |-> [active |-> NullIdx, sample |-> NullIdx],
     spawnSaw |-> [live |-> 0, cooldown |-> 0, since |-> NullTime]]

\* the program state as one record, so that a handler is a function from state to state
Cur ==
    [slideElements |-> slideElements, bigText |-> bigText, now |-> now,
     scrollLeft |-> scrollLeft, smoothTarget |-> smoothTarget,
     scrollScheduled |-> scrollScheduled, dragState |-> dragState,
     scrollSnapType |-> scrollSnapType,
     activeSlideIndex |-> activeSlideIndex, targetSlideIndex |-> targetSlideIndex,
     effectsEnabled |-> effectsEnabled, activeEmojiIndex |-> activeEmojiIndex,
     activeEmojiEffect |-> activeEmojiEffect, emojiAnimationFrame |-> emojiAnimationFrame,
     lastEmojiFrame |-> lastEmojiFrame, emojiDrops |-> emojiDrops,
     fireworksParticles |-> fireworksParticles, fireworksCooldown |-> fireworksCooldown,
     starParticles |-> starParticles, overlayOpacity |-> overlayOpacity,
     overlayEmojis |-> overlayEmojis, theme |-> theme, pickerLabel |-> pickerLabel,
     controlsIndex |-> controlsIndex, sharedState |-> sharedState,
     rafQ |-> rafQ, frameQ |-> frameQ, timers |-> timers, events |-> events,
     superseded |-> superseded, sinceBurst |-> sinceBurst, blend |-> blend,
     page |-> page, steps |-> steps, trace |-> NoTrace]

\* number of slides (slideElements.length)
NumSlides(s) == Len(s.slideElements)
\* slideElements[index] is defined
HasSlide(s, index) == index >= 0 /\ index < NumSlides(s)
Slide(s, index) == s.slideElements[index + 1]

----------------------------------------------------------------------------
(* requestAnimationFrame / cancelAnimationFrame / setTimeout *)

\* a callback with its closure variables
Callback(fn) ==
    [h |-> NullHandle, fn |-> fn, slide |-> NullIdx, run |-> 0, item |-> 0, field |-> "",
     startTime |-> 0, duration |-> 0, startDelay |-> 0,
     lastIndex |-> -1, lastRevealCount |-> 0, lastShuffleCounter |-> 0,
     randomChars |-> <<>>,
     \* history: sharedState.shuffleCounter at the end of the callback's previous frame
     seenCounter |-> 0]

Handles(q) == {q[i].h : i \in 1..Len(q)}

\* the handle the next requestAnimationFrame returns: one no pending callback has
NewHandle(state) == Let(state, LAMBDA s :
    CHOOSE h \in 1..(Len(s.rafQ) + Len(s.frameQ) + 2) :
        /\ h \notin Handles(s.rafQ) \cup Handles(s.frameQ) \cup {s.emojiAnimationFrame}
        /\ \A g \in 1..(h - 1) :
              g \in Handles(s.rafQ) \cup Handles(s.frameQ) \cup {s.emojiAnimationFrame})

requestAnimationFrame(state, cb) == Let(state, LAMBDA s :
    [s EXCEPT !.rafQ = Append(@, [cb EXCEPT !.h = NewHandle(s)])])

RemoveHandle(q, h) == SelectSeq(q, LAMBDA c : c.h # h)

cancelAnimationFrame(s, h) ==
    [s EXCEPT !.rafQ = RemoveHandle(@, h), !.frameQ = RemoveHandle(@, h)]

----------------------------------------------------------------------------
(* Value animations: count-up, text reveal, crypto reveal *)

\* element.textContent = text for the .slide-big element of slide index
SetText(s, index, text) ==
    [s EXCEPT !.bigText[index + 1].text = text, !.trace.wrote = TRUE]

\* element.textContent = text for a .list-item-title / .list-item-subtitle element
SetFieldText(s, index, item, field, text) ==
    [s EXCEPT !.bigText[index + 1].items[item + 1][field] = text, !.trace.wrote = TRUE]

\* runCountUpEffect: the text of the frame drawn elapsed time units after the start
CountUpText(card, elapsed) ==
    Let(parseNumberParts(substituteVariables(card.start_num, RecapData)), LAMBDA startParts :
    Let(parseNumberParts(substituteVariables(card.end_num, RecapData)), LAMBDA endParts :
    LET precision == Max(Max(startParts.decimals, endParts.decimals), card.step_decimals)
        prefix == IF card.prefix # Undefined THEN card.prefix ELSE startParts.prefix
        suffix == IF card.suffix # Undefined THEN card.suffix ELSE endParts.suffix
        \* startNum and endNum in units of 10^-precision
        startNum == startParts.mant * Pow10(precision - startParts.decimals)
        endNum == endParts.mant * Pow10(precision - endParts.decimals)
        den == EaseDen(CountUpDuration)
        num == startNum * den + (endNum - startNum) * EaseNum(elapsed, CountUpDuration)
        \* with an infinite operand (1 for Infinity, -1 for -Infinity, 2 for NaN):
        \* endNum - startNum is infinite (NaN for equal infinities), its product with
        \* eased = 0 is NaN, and opposite infinities add to NaN
        difference == IF endParts.inf # 0 /\ endParts.inf = startParts.inf THEN 2
                      ELSE IF endParts.inf # 0 THEN endParts.inf ELSE -startParts.inf
        product == IF difference = 2 \/ EaseNum(elapsed, CountUpDuration) = 0
                   THEN 2 ELSE difference
        current == IF product = 2 \/ (startParts.inf # 0 /\ startParts.inf # product)
                   THEN 2 ELSE product
        formatted == IF startParts.inf = 0 /\ endParts.inf = 0
                     THEN FormatNumber(num, den, precision)
                     ELSE IF current = 2 THEN <<"N", "a", "N">>
                     ELSE IF current = 1 THEN InfinityWord
                     ELSE <<"-">> \o InfinityWord
    IN prefix \o formatted \o suffix))

\* runCountUpEffect.animate
\* the count-up frame that requests the next frame whatever the progress
animateCountUp_NoStop(state, cb) == Let(state, LAMBDA s :
    LET elapsed == s.now - cb.startTime
    IN requestAnimationFrame(
          SetText(s, cb.slide, CountUpText(Slide(s, cb.slide), elapsed)), cb))

animateCountUp(state, cb) == Let(state, LAMBDA s :
    LET elapsed == s.now - cb.startTime
    IN Let(SetText(s, cb.slide, CountUpText(Slide(s, cb.slide), elapsed)), LAMBDA s1 :
       IF elapsed < CountUpDuration THEN requestAnimationFrame(s1, cb) ELSE s1))

runCountUpEffect(state, index) == Let(state, LAMBDA s :
    animateCountUp(s, [Callback("countUp") EXCEPT !.slide = index, !.startTime = s.now]))

\* runTextRevealEffect.animate
animateTextReveal(state, cb) == Let(state, LAMBDA s :
    LET card == Slide(s, cb.slide)
        scrollOptions == card.reveal_scroll_options
        finalText == substituteVariables(card.reveal_text, RecapData)
        elapsed == s.now - cb.startTime
        currentIndex == (EaseNum(elapsed, cb.duration) * Len(scrollOptions))
                            \div EaseDen(cb.duration)
        write == currentIndex # cb.lastIndex /\ currentIndex < Len(scrollOptions)
        s1 == IF write THEN SetText(s, cb.slide, scrollOptions[currentIndex + 1]) ELSE s
        cb1 == IF write THEN [cb EXCEPT !.lastIndex = currentIndex] ELSE cb
    IN IF elapsed < cb.duration
       THEN requestAnimationFrame(s1, cb1)
       ELSE SetText(s1, cb.slide, finalText))

runTextRevealEffect(state, index) == Let(state, LAMBDA s :
    LET card == Slide(s, index)
        totalDuration == IF card.scroll_duration = 0 THEN DefaultScrollDuration
                         ELSE card.scroll_duration
        finalText == substituteVariables(card.reveal_text, RecapData)
    IN IF Len(card.reveal_scroll_options) = 0
       THEN SetText(s, index, finalText)
       ELSE animateTextReveal(s, [Callback("textReveal") EXCEPT
                !.slide = index, !.startTime = s.now, !.duration = totalDuration]))

\* randomCharFor replacing every character, punctuation and blanks included
RandomChars_AllPositions(finalChars, chars, u) ==
    [i \in 1..Len(finalChars) |-> chars[IF u = 0 THEN 1 ELSE Len(chars)]]

\* finalChars.map((ch) => randomCharFor(ch)): u is the draw of Math.random(), 0 or 1
RandomChars(finalChars, chars, u) ==
    [i \in 1..Len(finalChars) |->
        IF IsAlnum(finalChars[i])
        THEN chars[IF u = 0 THEN 1 ELSE Len(chars)]
        ELSE finalChars[i]]

\* effect.crypto_chars || default
CryptoChars(card, default) == IF card.crypto_chars = <<>> THEN default ELSE card.crypto_chars

\* animateCryptoReveal.animate with decoys regenerated only when the field itself reveals
animateCrypto_OwnRevealOnly(state, cb, u) == Let(state, LAMBDA s :
    LET card == Slide(s, cb.slide)
        finalChars == card.items[cb.item + 1][cb.field]
        textLength == Len(finalChars)
        elapsed == s.now - cb.startTime
        easeNum == IF elapsed > cb.startDelay
                   THEN EaseNum(elapsed - cb.startDelay, cb.duration) ELSE 0
        revealCount == (easeNum * textLength) \div EaseDen(cb.duration)
        reveal == revealCount > cb.lastRevealCount
        counter == s.sharedState[cb.run] + (IF reveal THEN 1 ELSE 0)
        randomChars == IF reveal
                       THEN RandomChars(finalChars, CryptoChars(card, AnimDefaultCryptoChars), u)
                       ELSE cb.randomChars
        displayText == [i \in 1..textLength |->
                          IF i <= revealCount THEN finalChars[i] ELSE randomChars[i]]
        continue == elapsed < cb.startDelay + cb.duration
        cb1 == [cb EXCEPT !.lastRevealCount = IF reveal THEN revealCount ELSE @,
                          !.lastShuffleCounter = IF reveal THEN counter ELSE @,
                          !.randomChars = randomChars,
                          !.seenCounter = counter]
        s1 == [SetFieldText(s, cb.slide, cb.item, cb.field,
                            IF continue THEN displayText ELSE finalChars)
                 EXCEPT !.sharedState[cb.run] = counter,
                        !.trace.regenerated = reveal,
                        !.trace.revealed = reveal]
    IN IF continue THEN requestAnimationFrame(s1, cb1) ELSE s1)

\* animateCryptoReveal.animate
animateCrypto(state, cb, u) == Let(state, LAMBDA s :
    LET card == Slide(s, cb.slide)
        finalChars == card.items[cb.item + 1][cb.field]
        textLength == Len(finalChars)
        elapsed == s.now - cb.startTime
        easeNum == IF elapsed > cb.startDelay
                   THEN EaseNum(elapsed - cb.startDelay, cb.duration) ELSE 0
        revealCount == (easeNum * textLength) \div EaseDen(cb.duration)
        reveal == revealCount > cb.lastRevealCount
        counter == s.sharedState[cb.run] + (IF reveal THEN 1 ELSE 0)
        reshuffle == counter > cb.lastShuffleCounter
        randomChars == IF reshuffle
                       THEN RandomChars(finalChars, CryptoChars(card, AnimDefaultCryptoChars), u)
                       ELSE cb.randomChars
        displayText == [i \in 1..textLength |->
                          IF i <= revealCount THEN finalChars[i] ELSE randomChars[i]]
        continue == elapsed < cb.startDelay + cb.duration
        cb1 == [cb EXCEPT !.lastRevealCount = IF reveal THEN revealCount ELSE @,
                          !.lastShuffleCounter = IF reshuffle THEN counter ELSE @,
                          !.randomChars = randomChars,
                          !.seenCounter = counter]
        s1 == [SetFieldText(s, cb.slide, cb.item, cb.field,
                            IF continue THEN displayText ELSE finalChars)
                 EXCEPT !.sharedState[cb.run] = counter,
                        !.trace.regenerated = reshuffle,
                        !.trace.revealed = reveal]
    IN IF continue THEN requestAnimationFrame(s1, cb1) ELSE s1)

\* animateCryptoReveal(element, finalText, duration, cryptoChars, sharedState, startDelay)
animateCryptoReveal(state, index, item, field, duration, run, startDelay, u) == Let(state, LAMBDA s :
    LET card == Slide(s, index)
        finalText == card.items[item + 1][field]
    IN IF finalText = <<>>
       THEN SetFieldText(s, index, item, field, <<>>)
       ELSE animateCrypto(s, [Callback("crypto") EXCEPT
                !.slide = index, !.run = run, !.item = item, !.field = field,
                !.startTime = s.now, !.duration = duration, !.startDelay = startDelay,
                !.lastShuffleCounter = s.sharedState[run],
                !.seenCounter = s.sharedState[run],
                !.randomChars = RandomChars(finalText,
                                    CryptoChars(card, AnimDefaultCryptoChars), u)], u))

\* runCryptoRevealEffect: items.forEach from item index on
RECURSIVE StartCryptoItems(_, _, _, _, _)
StartCryptoItems(state, index, item, run, u) == Let(state, LAMBDA s :
    LET card == Slide(s, index)
        itemRevealDuration == IF card.item_duration = 0 THEN DefaultItemDuration
                              ELSE card.item_duration
        staggerDelay == IF card.stagger_delay = 0 THEN DefaultStaggerDelay
                        ELSE card.stagger_delay
        titleDelay == item * staggerDelay
        subtitleDelay == titleDelay + (itemRevealDuration * 3) \div 10
        s1 == animateCryptoReveal(s, index, item, "title", itemRevealDuration, run,
                                  titleDelay, u)
        s2 == animateCryptoReveal(s1, index, item, "subtitle",
                                  (itemRevealDuration * 7) \div 10, run, subtitleDelay, u)
    IN IF item >= Len(card.items) THEN s
       ELSE StartCryptoItems(s2, index, item + 1, run, u))

\* a fresh sharedState object
NewRun(state) == Let(state, LAMBDA s :
    CHOOSE r \in 1..(Cardinality(DOMAIN s.sharedState) + 1) :
        /\ r \notin DOMAIN s.sharedState
        /\ \A q \in 1..(r - 1) : q \in DOMAIN s.sharedState)

runCryptoRevealEffect(state, index, u) == Let(state, LAMBDA s :
    LET run == NewRun(s)
        s1 == [s EXCEPT !.sharedState =
                 [r \in DOMAIN s.sharedState \cup {run} |->
                     IF r = run THEN 0 ELSE s.sharedState[r]]]
    IN StartCryptoItems(s1, index, 0, run, u))

\* buildSlideElements: the content first rendered into .slide-big
InitialBigText(card, index, u) ==
    [text |->
        IF index = 0 THEN <<"R">>
        ELSE IF card.type = "countup" THEN substituteVariables(card.start_num, RecapData)
        ELSE IF card.type = "text_reveal"
             THEN (IF Len(card.reveal_scroll_options) > 0
                   THEN card.reveal_scroll_options[1] ELSE <<>>)
        ELSE IF card.type = "list" THEN <<>>
        ELSE substituteVariables(card.title, RecapData),
     items |->
        IF index # 0 /\ card.type = "list"
        THEN [i \in 1..Len(card.items) |->
                [title |-> RandomChars(card.items[i].title,
                                CryptoChars(card, BuildDefaultCryptoChars), u),
                 subtitle |-> RandomChars(card.items[i].subtitle,
                                CryptoChars(card, BuildDefaultCryptoChars), u)]]
        ELSE <<>>]

\* resetSlideEffect putting a count-up back to 0 whatever its start value
resetSlideEffect_ZeroStart(state, index, u) == Let(state, LAMBDA s :
    IF ~HasSlide(s, index) THEN s
    ELSE LET card == Slide(s, index)
             s0 == [s EXCEPT !.trace.resets = @ \cup {index},
                             !.superseded = @ \cup {index}]
         IN IF ~card.hasEffect THEN s0
            ELSE IF card.type = "countup"
            THEN SetText(s0, index, <<"0">>)
            ELSE IF card.type = "text_reveal"
            THEN SetText(s0, index, IF Len(card.reveal_scroll_options) > 0
                                   THEN card.reveal_scroll_options[1] ELSE <<>>)
            ELSE IF card.type = "list"
            THEN [s0 EXCEPT !.bigText[index + 1].items =
                    [i \in 1..Len(card.items) |->
                        [title |-> RandomChars(card.items[i].title,
                                        CryptoChars(card, AnimDefaultCryptoChars), u),
                         subtitle |-> RandomChars(card.items[i].subtitle,
                                        CryptoChars(card, AnimDefaultCryptoChars), u)]],
                    !.trace.wrote = TRUE]
            ELSE s0)

resetSlideEffect(state, index, u) == Let(state, LAMBDA s :
    IF ~HasSlide(s, index) THEN s
    ELSE LET card == Slide(s, index)
             s0 == [s EXCEPT !.trace.resets = @ \cup {index},
                             !.superseded = @ \cup {index}]
         IN IF ~card.hasEffect THEN s0
            ELSE IF card.type = "countup"
            THEN SetText(s0, index, substituteVariables(card.start_num, RecapData))
            ELSE IF card.type = "text_reveal"
            THEN SetText(s0, index, IF Len(card.reveal_scroll_options) > 0
                                   THEN card.reveal_scroll_options[1] ELSE <<>>)
            ELSE IF card.type = "list"
            THEN [s0 EXCEPT !.bigText[index + 1].items =
                    [i \in 1..Len(card.items) |->
                        [title |-> RandomChars(card.items[i].title,
                                        CryptoChars(card, AnimDefaultCryptoChars), u),
                         subtitle |-> RandomChars(card.items[i].subtitle,
                                        CryptoChars(card, AnimDefaultCryptoChars), u)]],
                    !.trace.wrote = TRUE]
            ELSE s0)

restartSlideEffect(state, index, u) == Let(state, LAMBDA s :
    IF ~HasSlide(s, index) THEN s
    ELSE LET card == Slide(s, index)
             s0 == [s EXCEPT !.trace.restarted = @ \cup {index},
                             !.trace.revived = @ \cup ({index} \cap s.superseded),
                             !.superseded = @ \ {index}]
         IN IF ~card.hasEffect THEN s0
            ELSE IF card.type = "countup" THEN runCountUpEffect(s0, index)
            ELSE IF card.type = "text_reveal" THEN runTextRevealEffect(s0, index)
            ELSE IF card.type = "list" THEN runCryptoRevealEffect(s0, index, u)
            ELSE s0)

----------------------------------------------------------------------------
(* Particle overlay: entity collections are bags of entity records.        *)
(* Positions are in 1/1000 px, speeds in px/s, ages in ms, so that one     *)
(* physics step of dtMs milliseconds adds speed * dtMs to a position.      *)
(* Of each entity the fields that decide recycling and removal are kept.   *)

\* the draws of Math.random() one handler makes: u = 0 stands for a draw of 0, u = 1 for a
\* draw just below 1; extra is the number of chained secondary firework bursts
Rnd == [u : {0, 1}, extra : 0..MaxExtraBursts]

RECURSIVE SumCounts(_, _)
SumCounts(B, S) ==
    IF S = {} THEN 0
    ELSE LET e == CHOOSE x \in S : TRUE IN B[e] + SumCounts(B, S \ {e})

\* the bag of F(e) for the entities e of bag B
MapBag(B, F(_)) ==
    [x \in {F(e) : e \in DOMAIN B} |-> SumCounts(B, {e \in DOMAIN B : F(e) = x})]

\* the entities of B that satisfy Keep
FilterBag(B, Keep(_)) == [e \in {x \in DOMAIN B : Keep(x)} |-> B[e]]

\* n entities, alternately e0 and e1 (entities differ in their random attributes)
TwoClassBag(e0, e1, n) ==
    IF e0 = e1 THEN (e0 :> n) ELSE (e0 :> (n - n \div 2)) @@ (e1 :> (n \div 2))

\* Array.from(emjString).filter((c) => c.trim().length > 0)
UsableGlyphs(emjString) == SelectSeq(emjString, LAMBDA c : ~IsBlank(c))

\* if (!lastEmojiFrame): null and 0 are falsy
FrameDtMs(state, timestamp) == Let(state, LAMBDA s :
    LET last == IF s.lastEmojiFrame = NullTime \/ s.lastEmojiFrame = 0
                THEN timestamp ELSE s.lastEmojiFrame
    IN Min((timestamp - last) * TimeUnitMs, MaxDtMs))

\* emojiAnimationFrame = requestAnimationFrame(loop)
ScheduleLoop(state, fn) == Let(state, LAMBDA s :
    [requestAnimationFrame(s, Callback(fn)) EXCEPT !.emojiAnimationFrame = NewHandle(s)])

\* stopEmojiAnimation leaving the rain drops in place
stopEmojiAnimation_KeepDrops(state) == Let(state, LAMBDA s :
    LET s1 == IF s.emojiAnimationFrame # NullHandle
              THEN cancelAnimationFrame(s, s.emojiAnimationFrame) ELSE s
    IN [s1 EXCEPT !.emojiAnimationFrame = NullHandle,
                  !.lastEmojiFrame = NullTime,
                  !.fireworksParticles = EmptyBag,
                  !.fireworksCooldown = 0,
                  !.activeEmojiEffect = "null",
                  !.starParticles = EmptyBag])

stopEmojiAnimation(state) == Let(state, LAMBDA s :
    LET s1 == IF s.emojiAnimationFrame # NullHandle
              THEN cancelAnimationFrame(s, s.emojiAnimationFrame) ELSE s
    IN [s1 EXCEPT !.emojiAnimationFrame = NullHandle,
                  !.emojiDrops = EmptyBag,
                  !.lastEmojiFrame = NullTime,
                  !.fireworksParticles = EmptyBag,
                  !.fireworksCooldown = 0,
                  !.activeEmojiEffect = "null",
                  !.starParticles = EmptyBag])

animateEmojiRain(state, timestamp, rnd) == Let(state, LAMBDA s :
    IF s.activeEmojiEffect # "rain" THEN s
    ELSE IF s.emojiDrops = EmptyBag THEN s
    ELSE LET dt == FrameDtMs(s, timestamp)
             Step(drop) ==
                LET y == drop.y + drop.speed * dt
                    rot == drop.rot + drop.rotSpeed * dt
                IN IF y > (InnerHeight + 200) * 1000
                   THEN [y |-> (-160) * 1000 - rnd.u * InnerHeight * 600,
                         speed |-> 140 + rnd.u * 220,
                         rot |-> rnd.u * 360000,
                         rotSpeed |-> -60 + rnd.u * 140]
                   ELSE [drop EXCEPT !.y = y, !.rot = rot]
         IN ScheduleLoop([s EXCEPT !.lastEmojiFrame = timestamp,
                                   !.emojiDrops = MapBag(s.emojiDrops, Step)], "rain"))

\* the fade-in of a freshly started effect
FadeIn(state, immediate, fn) == Let(state, LAMBDA s :
    IF immediate THEN [s EXCEPT !.overlayOpacity = 1]
    ELSE requestAnimationFrame(s, Callback(fn)))

startEmojiRain(state, emjString, immediate, rnd) == Let(state, LAMBDA s :
    LET s1 == [stopEmojiAnimation(s) EXCEPT !.activeEmojiEffect = "rain"]
        chars == UsableGlyphs(emjString)
        dropCount == Max(30, Min(70, InnerWidth \div 18))
        Drop(u) == [y |-> IF u = 0 THEN 0 ELSE -(InnerHeight * 600),
                    speed |-> 160 + u * 240,
                    rot |-> u * 360000,
                    rotSpeed |-> -70 + u * 140]
        s2 == [s1 EXCEPT !.overlayOpacity = 0,
                         !.emojiDrops = TwoClassBag(Drop(rnd.u), Drop(1 - rnd.u), dropCount),
                         !.lastEmojiFrame = s.now]
        s3 == animateEmojiRain(s2, s.now, rnd)
    IN IF Len(chars) = 0 THEN [s1 EXCEPT !.overlayOpacity = 0]
       ELSE [FadeIn(s3, immediate, "rainFade") EXCEPT !.lastEmojiFrame = NullTime])

\* createFireworkBurst, with its chained secondary bursts: the particles it creates
createFireworkBurst(rnd) ==
    LET count == 10 + rnd.u * 7
        particle == [y |-> (InnerHeight * (250 + rnd.u * 450)),
                     vy |-> IF rnd.u = 0 THEN 200 ELSE -400,
                     rot |-> rnd.u * 360000,
                     rotSpeed |-> -140 + rnd.u * 280,
                     life |-> 0,
                     duration |-> 1000 + rnd.u * 600]
    IN (particle :> (count * (1 + rnd.extra)))

\* animateEmojiFireworks spawning whenever the particle budget allows, whatever the cooldown
animateEmojiFireworks_NoCooldown(state, timestamp, rnd) == Let(state, LAMBDA s :
    IF s.activeEmojiEffect # "fireworks" THEN s
    ELSE LET dt == FrameDtMs(s, timestamp)
             cooldown == s.fireworksCooldown - dt
             Step(p) ==
                LET vy == p.vy + (Gravity * dt) \div 1000
                IN [p EXCEPT !.vy = vy, !.y = p.y + vy * dt,
                             !.rot = p.rot + p.rotSpeed * dt, !.life = p.life + dt]
             Alive(p) == ~(p.life >= p.duration \/ p.y > (InnerHeight + 200) * 1000)
             live == FilterBag(MapBag(s.fireworksParticles, Step), Alive)
             spawn == BagCardinality(live) < FireworksBudget /\ Len(s.overlayEmojis) > 0
             \* history: simulated time since the last burst of this kind (capped)
             since == IF s.sinceBurst = NullTime THEN NullTime
                      ELSE Min(s.sinceBurst + dt, MaxCooldown)
             s1 == IF spawn
                   THEN [s EXCEPT !.sinceBurst = 0,
                                  !.trace.spawned = TRUE,
                                  !.trace.spawnSaw = [live |-> BagCardinality(live),
                                                      cooldown |-> cooldown,
                                                      since |-> since]]
                   ELSE [s EXCEPT !.sinceBurst = since]
         IN ScheduleLoop([s1 EXCEPT
                !.lastEmojiFrame = timestamp,
                !.fireworksParticles = IF spawn THEN live (+) createFireworkBurst(rnd) ELSE live,
                !.fireworksCooldown = IF spawn THEN MinCooldown + rnd.u * (MaxCooldown - MinCooldown)
                                      ELSE cooldown],
              "fireworks"))

animateEmojiFireworks(state, timestamp, rnd) == Let(state, LAMBDA s :
    IF s.activeEmojiEffect # "fireworks" THEN s
    ELSE LET dt == FrameDtMs(s, timestamp)
             cooldown == s.fireworksCooldown - dt
             Step(p) ==
                LET vy == p.vy + (Gravity * dt) \div 1000
                IN [p EXCEPT !.vy = vy, !.y = p.y + vy * dt,
                             !.rot = p.rot + p.rotSpeed * dt, !.life = p.life + dt]
             Alive(p) == ~(p.life >= p.duration \/ p.y > (InnerHeight + 200) * 1000)
             live == FilterBag(MapBag(s.fireworksParticles, Step), Alive)
             spawn == BagCardinality(live) < FireworksBudget /\ cooldown <= 0
                        /\ Len(s.overlayEmojis) > 0
             \* history: simulated time since the last burst of this kind (capped)
             since == IF s.sinceBurst = NullTime THEN NullTime
                      ELSE Min(s.sinceBurst + dt, MaxCooldown)
             s1 == IF spawn
                   THEN [s EXCEPT !.sinceBurst = 0,
                                  !.trace.spawned = TRUE,
                                  !.trace.spawnSaw = [live |-> BagCardinality(live),
                                                      cooldown |-> cooldown,
                                                      since |-> since]]
                   ELSE [s EXCEPT !.sinceBurst = since]
         IN ScheduleLoop([s1 EXCEPT
                !.lastEmojiFrame = timestamp,
                !.fireworksParticles = IF spawn THEN live (+) createFireworkBurst(rnd) ELSE live,
                !.fireworksCooldown = IF spawn THEN MinCooldown + rnd.u * (MaxCooldown - MinCooldown)
                                      ELSE cooldown],
              "fireworks"))

startEmojiFireworks(state, emjString, immediate, rnd) == Let(state, LAMBDA s :
    LET s1 == [stopEmojiAnimation(s) EXCEPT !.activeEmojiEffect = "fireworks"]
        chars == UsableGlyphs(emjString)
        burst == createFireworkBurst(rnd)
        s2 == [s1 EXCEPT !.overlayEmojis = chars,
                         !.overlayOpacity = 0,
                         !.fireworksParticles = burst (+) burst (+) burst,
                         !.fireworksCooldown = 300 + rnd.u * 350,
                         !.lastEmojiFrame = s.now]
        s3 == animateEmojiFireworks(s2, s.now, rnd)
    IN IF Len(chars) = 0 THEN [s1 EXCEPT !.overlayOpacity = 0]
       ELSE [FadeIn(s3, immediate, "fadeIn") EXCEPT !.lastEmojiFrame = NullTime])

\* animateStarfield removing the stars that have left the viewport instead of recycling
\* them
animateStarfield_LoseRecycled(state, timestamp, rnd) == Let(state, LAMBDA s :
    IF s.activeEmojiEffect # "stars" THEN s
    ELSE IF s.starParticles = EmptyBag THEN s
    ELSE LET dt == FrameDtMs(s, timestamp)
             Step(star) ==
                [star EXCEPT !.y = star.y + star.speed * dt,
                             !.phase = star.phase + star.twinkle * dt]
             InView(star) == star.y <= (InnerHeight + 10) * 1000
         IN ScheduleLoop([s EXCEPT !.lastEmojiFrame = timestamp,
                                   !.starParticles =
                                       FilterBag(MapBag(s.starParticles, Step), InView)],
                         "stars"))

animateStarfield(state, timestamp, rnd) == Let(state, LAMBDA s :
    IF s.activeEmojiEffect # "stars" THEN s
    ELSE IF s.starParticles = EmptyBag THEN s
    ELSE LET dt == FrameDtMs(s, timestamp)
             Step(star) ==
                LET y == star.y + star.speed * dt
                IN [star EXCEPT
                      !.y = IF y > (InnerHeight + 10) * 1000
                            THEN (-10) * 1000 - rnd.u * 40000 ELSE y,
                      !.phase = star.phase + star.twinkle * dt]
         IN ScheduleLoop([s EXCEPT !.lastEmojiFrame = timestamp,
                                   !.starParticles = MapBag(s.starParticles, Step)], "stars"))

startStarfield(state, immediate, rnd) == Let(state, LAMBDA s :
    LET s1 == [stopEmojiAnimation(s) EXCEPT !.activeEmojiEffect = "stars",
                                            !.overlayEmojis = <<>>]
        count == Max(80, Min(160, InnerWidth \div 6))
        \* twinkle in 1/10 rad/s, phase in 1/10000 rad
        Star(u) == [y |-> u * InnerHeight * 1000,
                    speed |-> 4 + u * 22,
                    twinkle |-> 20 + u * 35,
                    phase |-> u * 62831]
        s2 == [s1 EXCEPT !.overlayOpacity = 0,
                         !.starParticles = TwoClassBag(Star(rnd.u), Star(1 - rnd.u), count),
                         !.lastEmojiFrame = s.now]
        s3 == animateStarfield(s2, s.now, rnd)
        s4 == [FadeIn(s3, immediate, "fadeIn") EXCEPT !.lastEmojiFrame = NullTime]
    IN ScheduleLoop(s4, "stars"))

fadeOutEmojiOverlay(s) ==
    [s EXCEPT !.overlayOpacity = 0, !.overlayEmojis = <<>>]

\* switchEmojiEffect.startNew without the emjString.trim() tests
startNew_NoTrim(state, targetIndex, immediate, rnd) == Let(state, LAMBDA s :
    LET slide == Slide(s, targetIndex)
        effect == ToLower(slide.emjEffect)
        emjString == slide.emj
    IN IF effect = "rain"
       THEN [startEmojiRain(s, emjString, immediate, rnd)
               EXCEPT !.activeEmojiIndex = targetIndex]
       ELSE IF effect = "fireworks"
       THEN [startEmojiFireworks(s, emjString, immediate, rnd)
               EXCEPT !.activeEmojiIndex = targetIndex]
       ELSE IF effect = "stars"
       THEN [startStarfield(s, immediate, rnd) EXCEPT !.activeEmojiIndex = targetIndex]
       ELSE [fadeOutEmojiOverlay(stopEmojiAnimation(s)) EXCEPT !.activeEmojiIndex = NullIdx])

\* switchEmojiEffect.startNew
startNew(state, targetIndex, immediate, rnd) == Let(state, LAMBDA s :
    LET slide == Slide(s, targetIndex)
        effect == ToLower(slide.emjEffect)
        emjString == slide.emj
        \* emjString.trim()
        trimmed == UsableGlyphs(emjString) # <<>>
    IN IF effect = "rain" /\ trimmed
       THEN [startEmojiRain(s, emjString, immediate, rnd)
               EXCEPT !.activeEmojiIndex = targetIndex]
       ELSE IF effect = "fireworks" /\ trimmed
       THEN [startEmojiFireworks(s, emjString, immediate, rnd)
               EXCEPT !.activeEmojiIndex = targetIndex]
       ELSE IF effect = "stars"
       THEN [startStarfield(s, immediate, rnd) EXCEPT !.activeEmojiIndex = targetIndex]
       ELSE [fadeOutEmojiOverlay(stopEmojiAnimation(s)) EXCEPT !.activeEmojiIndex = NullIdx])

switchEmojiEffect(state, targetIndex, immediate, rnd) == Let(state, LAMBDA s :
    IF ~HasSlide(s, targetIndex) THEN s
    ELSE IF ~s.effectsEnabled
    THEN [fadeOutEmojiOverlay(stopEmojiAnimation(s)) EXCEPT !.activeEmojiIndex = NullIdx]
    ELSE IF targetIndex = s.activeEmojiIndex /\ ~immediate THEN s
    ELSE IF immediate THEN startNew(s, targetIndex, immediate, rnd)
    ELSE startNew(fadeOutEmojiOverlay(s), targetIndex, immediate, rnd))

\* toggleEffects that leaves the running effect alone when it disables
toggleEffects_KeepRunning(state, rnd) == Let(state, LAMBDA s :
    LET s1 == [s EXCEPT !.effectsEnabled = ~s.effectsEnabled]
    IN IF ~s1.effectsEnabled
       THEN [s1 EXCEPT !.overlayOpacity = 0, !.activeEmojiIndex = NullIdx]
       ELSE switchEmojiEffect(s1, s1.activeSlideIndex, TRUE, rnd))

\* toggleEffects that re-enables the effect of the first slide
toggleEffects_FirstSlide(state, rnd) == Let(state, LAMBDA s :
    LET s1 == [s EXCEPT !.effectsEnabled = ~s.effectsEnabled]
    IN IF ~s1.effectsEnabled
       THEN [stopEmojiAnimation(s1) EXCEPT !.overlayOpacity = 0, !.activeEmojiIndex = NullIdx]
       ELSE switchEmojiEffect(s1, 0, TRUE, rnd))

toggleEffects(state, rnd) == Let(state, LAMBDA s :
    LET s1 == [s EXCEPT !.effectsEnabled = ~s.effectsEnabled]
    IN IF ~s1.effectsEnabled
       THEN [stopEmojiAnimation(s1) EXCEPT !.overlayOpacity = 0, !.activeEmojiIndex = NullIdx]
       ELSE switchEmojiEffect(s1, s1.activeSlideIndex, TRUE, rnd))

----------------------------------------------------------------------------
(* Scroll-position tracker *)

\* the browser keeps scrollLeft within the scrollable range
ClampScroll(s, left) == Max(0, Min(left, (NumSlides(s) - 1) * SlideWidth))

\* Math.round(a / b) for b > 0
RoundDiv(a, b) == (2 * a + b) \div (2 * b)

\* the scroll listener: schedule one frame callback unless one is pending
onScroll(state) == Let(state, LAMBDA s :
    IF s.scrollScheduled THEN s
    ELSE requestAnimationFrame([s EXCEPT !.scrollScheduled = TRUE], Callback("scroll")))

\* slidesWrapper.scrollTo({left, behavior})
scrollTo(state, left, smooth) == Let(state, LAMBDA s :
    LET dest == ClampScroll(s, left)
    IN IF smooth
       THEN [s EXCEPT !.smoothTarget = IF dest = s.scrollLeft THEN NullIdx ELSE dest]
       ELSE IF dest = s.scrollLeft THEN [s EXCEPT !.smoothTarget = NullIdx]
       ELSE onScroll([s EXCEPT !.scrollLeft = dest, !.smoothTarget = NullIdx]))

setControlsForIndex(s, index) == [s EXCEPT !.controlsIndex = index]

updatePickerLabel(s, index) == [s EXCEPT !.pickerLabel = index]

\* scrollToSlide that also makes the target the active slide
scrollToSlide_Activates(s, index) ==
    [setControlsForIndex(scrollTo(s, index * SlideWidth, TRUE), index)
        EXCEPT !.activeSlideIndex = index]

scrollToSlide(s, index) ==
    setControlsForIndex(scrollTo(s, index * SlideWidth, TRUE), index)

\* updateColors: which slides are blended at which ratio (ratio / slideWidth)
updateColors(state, offset, slideWidth) == Let(state, LAMBDA s :
    LET currentIndex == offset \div slideWidth
        nextIndex == Min(currentIndex + 1, NumSlides(s) - 1)
    IN [s EXCEPT !.theme = [current |-> currentIndex, next |-> nextIndex,
                            ratio |-> offset - currentIndex * slideWidth]])

\* the offset updateColors was last called with
LastSample(s) == s.theme.current * SlideWidth + s.theme.ratio

\* the visibilities with nothing assigned to the slide that is scrolling in
Visibility_CurrentOnly(state, offset, slideWidth, idx) == Let(state, LAMBDA s :
    LET currentIndex == offset \div slideWidth
        fraction == offset - currentIndex * slideWidth
        clampedFraction == Min(Max(fraction, 0), slideWidth)
    IN IF idx = currentIndex /\ currentIndex >= 0 /\ currentIndex < NumSlides(s)
       THEN slideWidth - clampedFraction
       ELSE 0)

\* checkSlideChange: visibilities[idx] * slideWidth
Visibility(state, offset, slideWidth, idx) == Let(state, LAMBDA s :
    LET currentIndex == offset \div slideWidth
        fraction == offset - currentIndex * slideWidth
        clampedFraction == Min(Max(fraction, 0), slideWidth)
    IN IF idx = currentIndex + 1 /\ currentIndex + 1 < NumSlides(s) THEN clampedFraction
       ELSE IF idx = currentIndex /\ currentIndex >= 0 /\ currentIndex < NumSlides(s)
       THEN slideWidth - clampedFraction
       ELSE 0)

\* the search for the most visible slide that keeps the first of equally visible slides
RECURSIVE MostVisible_FirstOfTies(_, _, _, _, _)
MostVisible_FirstOfTies(state, offset, slideWidth, idx, best) == Let(state, LAMBDA s :
    IF idx >= NumSlides(s) THEN best
    ELSE LET v == Visibility(s, offset, slideWidth, idx)
         IN MostVisible_FirstOfTies(s, offset, slideWidth, idx + 1,
              IF v > best.highestVisibility
              THEN [mostVisibleIndex |-> idx, highestVisibility |-> v]
              ELSE best))

\* checkSlideChange: the visibilities.forEach that finds the most visible slide,
\* from index idx on, given the best so far
RECURSIVE MostVisible(_, _, _, _, _)
MostVisible(state, offset, slideWidth, idx, best) == Let(state, LAMBDA s :
    IF idx >= NumSlides(s) THEN best
    ELSE LET v == Visibility(s, offset, slideWidth, idx)
         IN MostVisible(s, offset, slideWidth, idx + 1,
              IF v > best.highestVisibility
                 \/ (v = best.highestVisibility /\ idx > best.mostVisibleIndex)
              THEN [mostVisibleIndex |-> idx, highestVisibility |-> v]
              ELSE best))

\* the reset loop that skips the slides that are out of view
RECURSIVE ResetOthers_VisibleOnly(_, _, _, _, _, _)
ResetOthers_VisibleOnly(state, offset, slideWidth, idx, mostVisibleIndex, u) == Let(state, LAMBDA s :
    IF idx >= NumSlides(s) THEN s
    ELSE ResetOthers_VisibleOnly(
            IF idx # mostVisibleIndex
               /\ Visibility(s, offset, slideWidth, idx) > 0
               /\ 10 * Visibility(s, offset, slideWidth, idx) < 8 * slideWidth
            THEN resetSlideEffect(s, idx, u) ELSE s,
            offset, slideWidth, idx + 1, mostVisibleIndex, u))

\* checkSlideChange: the reset loop from index idx on
RECURSIVE ResetOthers(_, _, _, _, _, _)
ResetOthers(state, offset, slideWidth, idx, mostVisibleIndex, u) == Let(state, LAMBDA s :
    IF idx >= NumSlides(s) THEN s
    ELSE ResetOthers(
            IF idx # mostVisibleIndex
               /\ 10 * Visibility(s, offset, slideWidth, idx) < 8 * slideWidth
            THEN resetSlideEffect(s, idx, u) ELSE s,
            offset, slideWidth, idx + 1, mostVisibleIndex, u))

\* activation only above 70% visibility
ActivateIfDominant_Above70(state, mostVisibleIndex, highestVisibility, slideWidth, u) == Let(state, LAMBDA s :
    IF 10 * highestVisibility > 7 * slideWidth /\ mostVisibleIndex # s.activeSlideIndex
    THEN setControlsForIndex(
            restartSlideEffect(
                [s EXCEPT !.activeSlideIndex = mostVisibleIndex,
                          !.targetSlideIndex = mostVisibleIndex,
                          !.trace.activated = TRUE],
                mostVisibleIndex, u),
            mostVisibleIndex)
    ELSE s)

\* activation on every sample that has a slide at least 70% visible
ActivateIfDominant_EverySample(state, mostVisibleIndex, highestVisibility, slideWidth, u) == Let(state, LAMBDA s :
    IF 10 * highestVisibility >= 7 * slideWidth
    THEN setControlsForIndex(
            restartSlideEffect(
                [s EXCEPT !.activeSlideIndex = mostVisibleIndex,
                          !.targetSlideIndex = mostVisibleIndex,
                          !.trace.activated = TRUE],
                mostVisibleIndex, u),
            mostVisibleIndex)
    ELSE s)

\* checkSlideChange: start the animation once a slide is at least 70% visible
\* activation that does not restart the value animation of the slide
ActivateIfDominant_NoRestart(state, mostVisibleIndex, highestVisibility, slideWidth, u) == Let(state, LAMBDA s :
    IF 10 * highestVisibility >= 7 * slideWidth /\ mostVisibleIndex # s.activeSlideIndex
    THEN setControlsForIndex(
            [s EXCEPT !.activeSlideIndex = mostVisibleIndex,
                      !.targetSlideIndex = mostVisibleIndex,
                      !.trace.activated = TRUE],
            mostVisibleIndex)
    ELSE s)

ActivateIfDominant(state, mostVisibleIndex, highestVisibility, slideWidth, u) == Let(state, LAMBDA s :
    IF 10 * highestVisibility >= 7 * slideWidth /\ mostVisibleIndex # s.activeSlideIndex
    THEN setControlsForIndex(
            restartSlideEffect(
                [s EXCEPT !.activeSlideIndex = mostVisibleIndex,
                          !.targetSlideIndex = mostVisibleIndex,
                          !.trace.activated = TRUE],
                mostVisibleIndex, u),
            mostVisibleIndex)
    ELSE s)

\* the emoji swap with the 70% threshold of the activation
SwitchIfDominant_At70(state, mostVisibleIndex, highestVisibility, slideWidth, rnd) == Let(state, LAMBDA s :
    IF s.effectsEnabled /\ 10 * highestVisibility >= 7 * slideWidth
       /\ mostVisibleIndex # s.activeEmojiIndex
    THEN switchEmojiEffect([s EXCEPT !.trace.switchRequested = mostVisibleIndex,
                                     !.trace.switchSaw = [active |-> s.activeSlideIndex,
                                                          sample |-> LastSample(s)]],
                           mostVisibleIndex, FALSE, rnd)
    ELSE s)

\* checkSlideChange: swap emoji effects once the new slide is at least 50% visible
SwitchIfDominant(state, mostVisibleIndex, highestVisibility, slideWidth, rnd) == Let(state, LAMBDA s :
    IF s.effectsEnabled /\ 10 * highestVisibility >= 5 * slideWidth
       /\ mostVisibleIndex # s.activeEmojiIndex
    THEN switchEmojiEffect([s EXCEPT !.trace.switchRequested = mostVisibleIndex,
                                     !.trace.switchSaw = [active |-> s.activeSlideIndex,
                                                          sample |-> LastSample(s)]],
                           mostVisibleIndex, FALSE, rnd)
    ELSE s)

\* checkSlideChange with the emoji swap requested before the activation
checkSlideChange_SwitchFirst(state, offset, slideWidth, rnd) == Let(state, LAMBDA s :
    IF NumSlides(s) = 0 THEN s
    ELSE Let(MostVisible(s, offset, slideWidth, 0,
                         [mostVisibleIndex |-> 0, highestVisibility |-> 0]), LAMBDA best :
         LET mostVisibleIndex == best.mostVisibleIndex
             highestVisibility == best.highestVisibility
         IN Let(SwitchIfDominant(s, mostVisibleIndex, highestVisibility, slideWidth, rnd),
                LAMBDA s1 :
            Let(ActivateIfDominant(s1, mostVisibleIndex, highestVisibility, slideWidth, rnd.u),
                LAMBDA s2 :
            Let(IF 10 * highestVisibility >= 5 * slideWidth
                   /\ mostVisibleIndex # s2.activeSlideIndex
                THEN updatePickerLabel(s2, mostVisibleIndex) ELSE s2, LAMBDA s3 :
            IF 10 * highestVisibility >= 8 * slideWidth
            THEN ResetOthers(s3, offset, slideWidth, 0, mostVisibleIndex, rnd.u)
            ELSE s3)))))

checkSlideChange(state, offset, slideWidth, rnd) == Let(state, LAMBDA s :
    IF NumSlides(s) = 0 THEN s
    ELSE Let(MostVisible(s, offset, slideWidth, 0,
                         [mostVisibleIndex |-> 0, highestVisibility |-> 0]), LAMBDA best :
         LET mostVisibleIndex == best.mostVisibleIndex
             highestVisibility == best.highestVisibility
         IN Let(ActivateIfDominant(s, mostVisibleIndex, highestVisibility, slideWidth, rnd.u),
                LAMBDA s1 :
            Let(IF 10 * highestVisibility >= 5 * slideWidth
                   /\ mostVisibleIndex # s1.activeSlideIndex
                THEN updatePickerLabel(s1, mostVisibleIndex) ELSE s1, LAMBDA s2 :
            Let(SwitchIfDominant(s2, mostVisibleIndex, highestVisibility, slideWidth, rnd),
                LAMBDA s3 :
            IF 10 * highestVisibility >= 8 * slideWidth
            THEN ResetOthers(s3, offset, slideWidth, 0, mostVisibleIndex, rnd.u)
            ELSE s3)))))

\* the frame callback clearing scrollScheduled after the processing instead of before it
scrollFrame_ClearsAfter(s, rnd) ==
    LET s1 == [s EXCEPT !.trace.refed = (s.scrollLeft = LastSample(s))]
    IN IF ~HasSlide(s1, s1.scrollLeft \div SlideWidth)
       THEN [s1 EXCEPT !.trace.threw = TRUE]
       ELSE [checkSlideChange(updateColors(s1, s1.scrollLeft, SlideWidth),
                              s1.scrollLeft, SlideWidth, rnd)
                EXCEPT !.scrollScheduled = FALSE]

\* the frame callback of the scroll listener; updateColors reads
\* slideElements[currentIndex].dataset, which throws a TypeError and ends the callback
\* when the offset is before the first slide or beyond the end of the last one
scrollFrame(s, rnd) ==
    LET s1 == [s EXCEPT !.scrollScheduled = FALSE,
                        !.trace.refed = (s.scrollLeft = LastSample(s))]
    IN IF ~HasSlide(s1, s1.scrollLeft \div SlideWidth)
       THEN [s1 EXCEPT !.trace.threw = TRUE]
       ELSE checkSlideChange(updateColors(s1, s1.scrollLeft, SlideWidth),
                             s1.scrollLeft, SlideWidth, rnd)

----------------------------------------------------------------------------
(* The presentations checked: the cards that follow the title slide *)

\* value-animation decks
DeckCountList ==
    <<TitleCard,
      [Card("countup") EXCEPT !.start_num = <<"$", "0">>, !.end_num = <<"1", ".", "5">>],
      [Card("list") EXCEPT !.items = <<[title |-> <<"a", "b">>, subtitle |-> <<"x">>]>>,
                           !.item_duration = 100]>>

DeckReveal ==
    <<TitleCard,
      [Card("text_reveal") EXCEPT !.reveal_scroll_options = << <<"x">>, <<"y">> >>,
                                  !.reveal_text = <<"%", "{", "n", "}">>],
      [Card("text_reveal") EXCEPT !.reveal_text = <<"z">>]>>

ValueDecks == {DeckCountList, DeckReveal}

\* particle-overlay decks
DeckRainStars ==
    <<TitleCard,
      [Card("static") EXCEPT !.emjEffect = "rain", !.emj = <<"a", "b">>],
      [Card("static") EXCEPT !.emjEffect = "Stars"]>>

DeckFireworks ==
    <<TitleCard,
      [Card("static") EXCEPT !.emjEffect = "fireworks", !.emj = <<"s">>],
      [Card("static") EXCEPT !.emjEffect = "rain", !.emj = <<" ">>]>>

\* a deck without animations or effects
DeckPlain ==
    <<TitleCard, [Card("static") EXCEPT !.title = <<"S">>], Card("static")>>

OverlayDecks == {DeckRainStars, DeckFireworks}

----------------------------------------------------------------------------
(* Initial state: showRecapSlides has built the slides (buildSlideElements) *)
(* and initialised scroll tracking (initHorizontalScroll)                   *)

\* the state buildSlideElements leaves, with the stored effects preference
Built(cards, enabled, u) ==
    [slideElements |-> cards,
     bigText |-> [i \in 1..Len(cards) |-> InitialBigText(cards[i], i - 1, u)],
     now |-> StartTime, scrollLeft |-> 0, smoothTarget |-> NullIdx,
     scrollScheduled |-> FALSE,
     dragState |-> [active |-> FALSE, startScroll |-> 0, moved |-> FALSE],
     scrollSnapType |-> "x mandatory",
     activeSlideIndex |-> 0, targetSlideIndex |-> 0, effectsEnabled |-> enabled,
     activeEmojiIndex |-> NullIdx, activeEmojiEffect |-> "null",
     emojiAnimationFrame |-> NullHandle, lastEmojiFrame |-> NullTime,
     emojiDrops |-> EmptyBag, fireworksParticles |-> EmptyBag, fireworksCooldown |-> 0,
     starParticles |-> EmptyBag, overlayOpacity |-> 0, overlayEmojis |-> <<>>,
     theme |-> [current |-> 0, next |-> 0, ratio |-> 0],
     pickerLabel |-> 0, controlsIndex |-> 0, sharedState |-> <<>>,
     rafQ |-> <<>>, frameQ |-> <<>>, timers |-> <<>>, events |-> 0,
     superseded |-> {}, sinceBurst |-> NullTime, blend |-> NoBlend,
     page |-> [container |-> "slides", message |-> "", tracking |-> FALSE],
     steps |-> [from |-> 0, count |-> 0],
     trace |-> NoTrace]

initHorizontalScroll(state, rnd) == Let(state, LAMBDA s :
    LET s1 == updateColors([s EXCEPT !.activeSlideIndex = 0, !.targetSlideIndex = 0,
                                     !.page.tracking = TRUE],
                           s.scrollLeft, SlideWidth)
    IN Let(restartSlideEffect(s1, 0, rnd.u), LAMBDA s2 :
       IF s2.effectsEnabled THEN switchEmojiEffect(s2, 0, TRUE, rnd) ELSE s2))

\* the sharedState objects some pending callback still refers to
LiveRuns(state) == Let(state, LAMBDA s :
    {s.rafQ[i].run : i \in 1..Len(s.rafQ)} \cup {s.frameQ[i].run : i \in 1..Len(s.frameQ)})

\* the variables hold state s, reached by handler op
Holds(state, op) == \E s \in {state} :
    /\ slideElements = s.slideElements
    /\ bigText = s.bigText
    /\ now = s.now
    /\ scrollLeft = s.scrollLeft
    /\ smoothTarget = s.smoothTarget
    /\ scrollScheduled = s.scrollScheduled
    /\ dragState = s.dragState
    /\ scrollSnapType = s.scrollSnapType
    /\ activeSlideIndex = s.activeSlideIndex
    /\ targetSlideIndex = s.targetSlideIndex
    /\ effectsEnabled = s.effectsEnabled
    /\ activeEmojiIndex = s.activeEmojiIndex
    /\ activeEmojiEffect = s.activeEmojiEffect
    /\ emojiAnimationFrame = s.emojiAnimationFrame
    /\ lastEmojiFrame = s.lastEmojiFrame
    /\ emojiDrops = s.emojiDrops
    /\ fireworksParticles = s.fireworksParticles
    /\ fireworksCooldown = s.fireworksCooldown
    /\ starParticles = s.starParticles
    /\ overlayOpacity = s.overlayOpacity
    /\ overlayEmojis = s.overlayEmojis
    /\ theme = s.theme
    /\ pickerLabel = s.pickerLabel
    /\ controlsIndex = s.controlsIndex
    /\ sharedState = [r \in DOMAIN s.sharedState \cap LiveRuns(s) |-> s.sharedState[r]]
    /\ rafQ = s.rafQ
    /\ frameQ = s.frameQ
    /\ timers = s.timers
    /\ events = s.events
    /\ superseded = s.superseded
    /\ sinceBurst = s.sinceBurst
    /\ blend = s.blend
    /\ page = s.page
    /\ steps = s.steps
    /\ lastOp = [s.trace EXCEPT !.op = op]

\* the step of a handler that leaves state s
Commit(state, op) == \E s \in {state} :
    /\ Len(s.rafQ) + Len(s.frameQ) <= MaxPending
    /\ slideElements' = s.slideElements
    /\ bigText' = s.bigText
    /\ now' = s.now
    /\ scrollLeft' = s.scrollLeft
    /\ smoothTarget' = s.smoothTarget
    /\ scrollScheduled' = s.scrollScheduled
    /\ dragState' = s.dragState
    /\ scrollSnapType' = s.scrollSnapType
    /\ activeSlideIndex' = s.activeSlideIndex
    /\ targetSlideIndex' = s.targetSlideIndex
    /\ effectsEnabled' = s.effectsEnabled
    /\ activeEmojiIndex' = s.activeEmojiIndex
    /\ activeEmojiEffect' = s.activeEmojiEffect
    /\ emojiAnimationFrame' = s.emojiAnimationFrame
    /\ lastEmojiFrame' = s.lastEmojiFrame
    /\ emojiDrops' = s.emojiDrops
    /\ fireworksParticles' = s.fireworksParticles
    /\ fireworksCooldown' = s.fireworksCooldown
    /\ starParticles' = s.starParticles
    /\ overlayOpacity' = s.overlayOpacity
    /\ overlayEmojis' = s.overlayEmojis
    /\ theme' = s.theme
    /\ pickerLabel' = s.pickerLabel
    /\ controlsIndex' = s.controlsIndex
    /\ sharedState' = [r \in DOMAIN s.sharedState \cap LiveRuns(s) |-> s.sharedState[r]]
    /\ rafQ' = s.rafQ
    /\ frameQ' = s.frameQ
    /\ timers' = s.timers
    /\ events' = s.events
    /\ superseded' = s.superseded
    /\ sinceBurst' = s.sinceBurst
    /\ blend' = s.blend
    /\ page' = s.page
    /\ steps' = s.steps
    /\ lastOp' = [s.trace EXCEPT !.op = op]

\* showRecapSlides on one of the decks, with one of the stored effects preferences
Loaded(decks, preferences) ==
    \E cards \in decks, enabled \in preferences, rnd \in Rnd :
        Holds(initHorizontalScroll(Built(cards, enabled, rnd.u), rnd), "showRecapSlides")

Init == Loaded(ValueDecks, {FALSE})

InitOverlay == Loaded(OverlayDecks, BOOLEAN)

InitNav == Loaded({DeckPlain}, {FALSE})

----------------------------------------------------------------------------
(* Input events.  An event handler runs only between frames.               *)

\* pointer displacements of a drag (dragState.startX - e.pageX)
DragDeltas == {-6, 3}

Idle == frameQ = <<>>

\* an input event can be handled, and the state in which its handler starts
CanInput == Idle /\ events < MaxEventsPerFrame
Input == [Cur EXCEPT !.events = @ + 1]

\* the fractions of a slide width (in 1/SlideWidth) at which scroll offsets are sampled:
\* they make the visibilities of the two slides in view 1 and 0, 0.7 and 0.3, 0.5 and 0.5,
\* 0.2 and 0.8 (the thresholds of checkSlideChange are 0.5, 0.7 and 0.8)
Fractions == {0, 3, 5, 8}

ScrollOffsets ==
    {x \in 0..((NumSlides(Cur) - 1) * SlideWidth) : x % SlideWidth \in Fractions}

\* the user scrolls the strip (wheel, touch, scrollbar) and is at offset x when the next
\* frame begins (possibly the offset the scrolling started from); the scroll events
\* between two frames are one event, as the listener processes the offset of the frame
UserScroll(x) ==
    /\ CanInput
    /\ ~dragState.active
    /\ ~scrollScheduled
    /\ x \in ScrollOffsets
    /\ Commit(onScroll([Input EXCEPT !.scrollLeft = x, !.smoothTarget = NullIdx]), "scroll")

\* the browser advances the smooth scroll in progress to offset x
SmoothScrollStep(x) ==
    /\ CanInput
    /\ smoothTarget # NullIdx
    /\ ~scrollScheduled
    /\ x \in ScrollOffsets
    /\ x # scrollLeft
    /\ \/ scrollLeft < x /\ x <= smoothTarget
       \/ smoothTarget <= x /\ x < scrollLeft
    /\ Commit(onScroll([Input EXCEPT !.scrollLeft = x,
                                   !.smoothTarget = IF x = smoothTarget THEN NullIdx ELSE @]),
              "smoothScroll")

mousedown(state) == Let(state, LAMBDA s :
    [s EXCEPT !.dragState = [active |-> TRUE, startScroll |-> s.scrollLeft, moved |-> FALSE],
              !.scrollSnapType = "none"])

mousemove(state, delta) == Let(state, LAMBDA s :
    IF ~s.dragState.active THEN s
    ELSE LET left == ClampScroll(s, s.dragState.startScroll + delta)
             s1 == IF left = s.scrollLeft THEN s
                   ELSE onScroll([s EXCEPT !.scrollLeft = left, !.smoothTarget = NullIdx])
         IN IF Abs(delta) > 5 THEN [s1 EXCEPT !.dragState.moved = TRUE] ELSE s1)

\* mouseup always snapping to the slide nearest to the current offset
mouseup_NearestOnly(state) == Let(state, LAMBDA s :
    IF ~s.dragState.active THEN s
    ELSE LET targetIndex == RoundDiv(s.scrollLeft, SlideWidth)
             s1 == scrollTo([s EXCEPT !.dragState.active = FALSE],
                            targetIndex * SlideWidth, TRUE)
         IN requestAnimationFrame(s1, Callback("snapRestore")))

mouseup(state) == Let(state, LAMBDA s :
    IF ~s.dragState.active THEN s
    ELSE LET slideWidth == SlideWidth
             currentScroll == s.scrollLeft
             startIndex == RoundDiv(s.dragState.startScroll, slideWidth)
             delta == currentScroll - s.dragState.startScroll
             \* threshold = slideWidth * 0.25
             targetIndex == IF 4 * delta > slideWidth
                            THEN Min(startIndex + 1, NumSlides(s) - 1)
                            ELSE IF 4 * delta < -slideWidth
                            THEN Max(startIndex - 1, 0)
                            ELSE RoundDiv(currentScroll, slideWidth)
             s1 == scrollTo([s EXCEPT !.dragState.active = FALSE],
                            targetIndex * slideWidth, TRUE)
         IN requestAnimationFrame(s1, Callback("snapRestore")))

\* the click listener stepping without the bound of the last slide
click_NoClamp(state) == Let(state, LAMBDA s :
    LET s1 == IF ~s.dragState.moved
              THEN scrollToSlide([s EXCEPT !.targetSlideIndex = @ + 1],
                                 s.targetSlideIndex + 1)
              ELSE s
    IN [s1 EXCEPT !.dragState.moved = FALSE])

click(state) == Let(state, LAMBDA s :
    LET s1 == IF ~s.dragState.moved
              THEN scrollToSlide(
                     [s EXCEPT !.targetSlideIndex = Min(@ + 1, NumSlides(s) - 1)],
                     Min(s.targetSlideIndex + 1, NumSlides(s) - 1))
              ELSE s
    IN [s1 EXCEPT !.dragState.moved = FALSE])

keydown(state, key) == Let(state, LAMBDA s :
    IF key = "ArrowRight"
    THEN scrollToSlide([s EXCEPT !.targetSlideIndex = Min(@ + 1, NumSlides(s) - 1)],
                       Min(s.targetSlideIndex + 1, NumSlides(s) - 1))
    ELSE IF key = "ArrowLeft"
    THEN scrollToSlide([s EXCEPT !.targetSlideIndex = Max(@ - 1, 0)],
                       Max(s.targetSlideIndex - 1, 0))
    ELSE s)

prevslide(state) == Let(state, LAMBDA s :
    IF NumSlides(s) = 0 THEN s
    ELSE scrollToSlide([s EXCEPT !.targetSlideIndex = Max(@ - 1, 0)],
                       Max(s.targetSlideIndex - 1, 0)))

nextslide(state) == Let(state, LAMBDA s :
    IF NumSlides(s) = 0 THEN s
    ELSE scrollToSlide([s EXCEPT !.targetSlideIndex = Min(@ + 1, NumSlides(s) - 1)],
                       Min(s.targetSlideIndex + 1, NumSlides(s) - 1)))

\* the resize listener: clearTimeout(resizeTimeout); resizeTimeout = setTimeout(..., 150)
resize(s) ==
    [s EXCEPT !.timers = Append(SelectSeq(@, LAMBDA tm : tm.fn # "resize"),
                                [fn |-> "resize", due |-> s.now + ResizeDelay])]

\* the callback of the resize timer (the slide width is the same after the resize)
resizeSettled(s, u) ==
    restartSlideEffect(scrollTo(s, s.targetSlideIndex * SlideWidth, FALSE),
                       s.targetSlideIndex, u)

MouseDown == CanInput /\ ~dragState.active /\ Commit(mousedown(Input), "mousedown")

MouseMove(delta) == CanInput /\ dragState.active /\ Commit(mousemove(Input, delta), "mousemove")

MouseUp == CanInput /\ dragState.active /\ Commit(mouseup(Input), "mouseup")

Click == CanInput /\ ~dragState.active /\ Commit(click(Input), "click")

KeyDown(key) == CanInput /\ Commit(keydown(Input, key), "keydown")

PrevSlide == CanInput /\ Commit(prevslide(Input), "prevslide")

NextSlide == CanInput /\ Commit(nextslide(Input), "nextslide")

\* a click on an item of the slide picker list
PickerClick(idx) == CanInput /\ Commit(scrollToSlide(Input, idx), "scrollToSlide")

ToggleEffects(rnd) == CanInput /\ Commit(toggleEffects(Input, rnd), "toggleEffects")

Resize == CanInput /\ Commit(resize(Input), "resize")

----------------------------------------------------------------------------
(* Frames and timers *)

\* a display refresh dt time units after the previous one: the pending callbacks
\* become the callbacks of this frame
BeginFrame(dt) ==
    /\ Idle
    /\ now + dt <= StartTime + MaxTicks * FrameStep
    /\ Commit([Cur EXCEPT !.now = now + dt, !.frameQ = rafQ, !.rafQ = <<>>, !.events = 0],
              "frame")

\* the state in which the first callback of the frame has been taken off the queue
Taken == [Cur EXCEPT !.frameQ = Tail(frameQ)]

Next1(fn) == frameQ # <<>> /\ Head(frameQ).fn = fn

RunScrollCallback(rnd) == Next1("scroll") /\ Commit(scrollFrame(Taken, rnd), "scrollFrame")

RunSnapRestore ==
    /\ Next1("snapRestore")
    /\ Commit([Taken EXCEPT !.scrollSnapType = "x mandatory"], "snapRestore")

RunCountUp == Next1("countUp") /\ Commit(animateCountUp(Taken, Head(frameQ)), "countUp")

RunTextReveal ==
    Next1("textReveal") /\ Commit(animateTextReveal(Taken, Head(frameQ)), "textReveal")

RunCrypto(u) == Next1("crypto") /\ Commit(animateCrypto(Taken, Head(frameQ), u), "crypto")

RunRain(rnd) == Next1("rain") /\ Commit(animateEmojiRain(Taken, now, rnd), "rain")

RunFireworks(rnd) ==
    Next1("fireworks") /\ Commit(animateEmojiFireworks(Taken, now, rnd), "fireworks")

RunStars(rnd) == Next1("stars") /\ Commit(animateStarfield(Taken, now, rnd), "stars")

\* the fade-in callback of startStarfield / startEmojiFireworks
RunFadeIn == Next1("fadeIn") /\ Commit([Taken EXCEPT !.overlayOpacity = 1], "fadeIn")

\* the fade-in callback of startEmojiRain: setTimeout(..., 250)
RunRainFade ==
    /\ Next1("rainFade")
    /\ Commit([Taken EXCEPT !.timers = Append(@, [fn |-> "rainFadeIn", due |-> now + RainFadeDelay])],
              "rainFade")

\* a timer whose delay has passed fires
FireTimer(i, u) ==
    /\ Idle
    /\ i \in 1..Len(timers)
    /\ timers[i].due <= now
    /\ LET rest == [Cur EXCEPT !.timers = SubSeq(timers, 1, i - 1)
                                            \o SubSeq(timers, i + 1, Len(timers))]
       IN IF timers[i].fn = "resize"
          THEN Commit(resizeSettled(rest, u), "resizeSettled")
          ELSE Commit([rest EXCEPT !.overlayOpacity = 1], "rainFadeIn")

\* scrolling through a deck of animated cards
Next ==
    \/ \E x \in ScrollOffsets : UserScroll(x)
    \/ BeginFrame(FrameStep)
    \/ \E rnd \in Rnd : RunScrollCallback(rnd)
    \/ RunCountUp
    \/ RunTextReveal
    \/ \E u \in {0, 1} : RunCrypto(u)
    \/ Resize
    \/ \E i \in 1..2, u \in {0, 1} : FireTimer(i, u)

Spec == Init /\ [][Next]_vars

\* scrolling through a deck of cards with particle effects, toggling the effects
NextOverlay ==
    \/ \E x \in ScrollOffsets : UserScroll(x)
    \/ \E rnd \in Rnd : ToggleEffects(rnd)
    \/ BeginFrame(FrameStep)
    \/ \E rnd \in Rnd : RunScrollCallback(rnd)
    \/ \E rnd \in Rnd : RunRain(rnd)
    \/ \E rnd \in Rnd : RunFireworks(rnd)
    \/ \E rnd \in Rnd : RunStars(rnd)
    \/ RunFadeIn
    \/ RunRainFade
    \/ \E i \in 1..2, u \in {0, 1} : FireTimer(i, u)

SpecOverlay == InitOverlay /\ [][NextOverlay]_vars

\* navigating a deck: controls, keys, clicks, the slide picker and pointer drags
NextNav ==
    \/ \E x \in ScrollOffsets : SmoothScrollStep(x)
    \/ MouseDown
    \/ \E delta \in DragDeltas : MouseMove(delta)
    \/ MouseUp
    \/ Click
    \/ \E key \in {"ArrowRight", "ArrowLeft"} : KeyDown(key)
    \/ PrevSlide
    \/ NextSlide
    \/ \E idx \in 0..2 : PickerClick(idx)
    \/ BeginFrame(FrameStep)
    \/ \E rnd \in Rnd : RunScrollCallback(rnd)
    \/ RunSnapRestore

SpecNav == InitNav /\ [][NextNav]_vars

----------------------------------------------------------------------------
(* Properties *)

\* visibility of slide i (in 1/SlideWidth) at the current scroll offset
Vis(i) == Visibility(Cur, scrollLeft, SlideWidth, i)

\* the dominant slide of the current scroll offset: the most visible one, the later
\* of two equally visible slides
DominantIndex ==
    CHOOSE d \in 0..(NumSlides(Cur) - 1) :
        \A i \in 0..(NumSlides(Cur) - 1) : Vis(i) < Vis(d) \/ (Vis(i) = Vis(d) /\ i <= d)

DominantVisibility == Vis(DominantIndex)

\* shown is final with every alphanumeric glyph replaced by a glyph of the alphabet
IsDecoy(shown, final, alphabet) ==
    /\ Len(shown) = Len(final)
    /\ \A k \in 1..Len(final) :
          IF IsAlnum(final[k])
          THEN \E j \in 1..Len(alphabet) : shown[k] = alphabet[j]
          ELSE shown[k] = final[k]

\* every field of every item of a list card is displayed fully in decoy glyphs
FullyDecoy(card, shown) ==
    /\ Len(shown.items) = Len(card.items)
    /\ \A k \in 1..Len(card.items) :
          /\ IsDecoy(shown.items[k].title, card.items[k].title,
                     CryptoChars(card, AnimDefaultCryptoChars))
          /\ IsDecoy(shown.items[k].subtitle, card.items[k].subtitle,
                     CryptoChars(card, AnimDefaultCryptoChars))

\* the displayed text shows the number of the start text of a count-up card
ShowsStartValue(card, shown) ==
    \E a \in {parseNumberParts(shown.text)},
       b \in {parseNumberParts(substituteVariables(card.start_num, RecapData))} :
        /\ a.matched
        /\ a.mant * Pow10(b.decimals) = b.mant * Pow10(a.decimals)

\* the first text option of a text-reveal card, withoutOptions if it has none
FirstOption(card, withoutOptions) ==
    IF Len(card.reveal_scroll_options) > 0 THEN card.reveal_scroll_options[1]
    ELSE withoutOptions

\* shown is the start state of the card's value animation, where a text reveal
\* without options starts at withoutOptions
StartState(card, shown, withoutOptions) ==
    \/ ~card.hasEffect
    \/ card.type \notin {"countup", "text_reveal", "list"}
    \/ card.type = "countup" /\ ShowsStartValue(card, shown)
    \/ card.type = "text_reveal" /\ shown.text = FirstOption(card, withoutOptions)
    \/ card.type = "list" /\ FullyDecoy(card, shown)

\* shown is the reset (initial) state of the card's value animation
ResetState(card, shown) ==
    \/ ~card.hasEffect
    \/ card.type \notin {"countup", "text_reveal", "list"}
    \/ card.type = "countup" /\ shown.text = substituteVariables(card.start_num, RecapData)
    \/ card.type = "text_reveal" /\ shown.text = FirstOption(card, <<>>)
    \/ card.type = "list" /\ FullyDecoy(card, shown)

\* a processed scroll sample activates the dominant slide exactly when it is at least
\* 70% visible and not the active slide, and then the slide displays its start state
ActivationStep(strict) ==
    lastOp'.op = "scrollFrame" =>
        IF 10 * DominantVisibility >= 7 * SlideWidth /\ DominantIndex # activeSlideIndex
        THEN /\ activeSlideIndex' = DominantIndex
             /\ lastOp'.restarted = {DominantIndex}
             /\ StartState(Slide(Cur, DominantIndex), bigText'[DominantIndex + 1],
                           IF strict THEN <<>>
                           ELSE substituteVariables(Slide(Cur, DominantIndex).reveal_text,
                                                    RecapData))
        ELSE /\ activeSlideIndex' = activeSlideIndex
             /\ lastOp'.restarted = {}

\* C1 (amended): when checkSlideChange processes a sample whose dominant slide d is at
\* least 70% visible and is not the active slide, it makes d the active slide and restarts
\* d's value animation, after which d displays the count-up start value, the first text
\* option (the final text if the text reveal has no options) or a fully-decoy list;
\* otherwise the active slide is unchanged and no value animation is restarted
C1_ActivationRestartsFromStart == [][ActivationStep(FALSE)]_vars

\* C1 as stated: an activated text reveal always displays its first text option (nothing
\* if it has none) right after the call
C1_AsStated == [][ActivationStep(TRUE)]_vars

\* a scroll sample has activated a text reveal without options, which displays its final text
C1_Witness ==
    /\ lastOp.op = "scrollFrame"
    /\ lastOp.activated
    /\ Slide(Cur, activeSlideIndex).type = "text_reveal"
    /\ Len(Slide(Cur, activeSlideIndex).reveal_scroll_options) = 0
    /\ bigText[activeSlideIndex + 1].text =
          substituteVariables(Slide(Cur, activeSlideIndex).reveal_text, RecapData)
    /\ bigText[activeSlideIndex + 1].text # <<>>

\* C2: processing the sample that was processed last activates no slide and restarts no
\* value animation, and every processed sample requests an emoji switch exactly when
\* effects are enabled, the dominant slide is at least 50% visible and it is not the
\* slide of the running emoji effect
C2_SameSampleIdempotent ==
    [][lastOp'.op = "scrollFrame" =>
          /\ scrollLeft = LastSample(Cur) =>
                /\ ~lastOp'.activated
                /\ lastOp'.restarted = {}
                /\ activeSlideIndex' = activeSlideIndex
          /\ lastOp'.switchRequested =
                IF /\ effectsEnabled
                   /\ 10 * DominantVisibility >= 5 * SlideWidth
                   /\ DominantIndex # activeEmojiIndex
                THEN DominantIndex ELSE NullIdx]_vars

\* the sample processed last was processed again: nothing was activated, and the emoji
\* switch was requested again
C2_Witness ==
    /\ lastOp.op = "scrollFrame"
    /\ lastOp.refed
    /\ ~lastOp.activated
    /\ lastOp.switchRequested # NullIdx

\* the slides other than the dominant one that are less than 80% visible
OthersBelow80 ==
    {i \in 0..(NumSlides(Cur) - 1) : i # DominantIndex /\ 10 * Vis(i) < 8 * SlideWidth}

\* C3: a processed sample whose dominant slide is at least 80% visible resets every other
\* slide that is less than 80% visible, which then displays its reset state; a processed
\* sample whose dominant slide is less than 80% visible resets no slide
C3_ResetBelow80 ==
    [][lastOp'.op = "scrollFrame" =>
          IF 10 * DominantVisibility >= 8 * SlideWidth
          THEN /\ lastOp'.resets = OthersBelow80
               /\ \A i \in OthersBelow80 : ResetState(Slide(Cur, i), bigText'[i + 1])
          ELSE lastOp'.resets = {}]_vars

\* a scroll sample has reset a slide whose count-up or crypto animation was running
C3_Witness ==
    /\ lastOp.op = "scrollFrame"
    /\ \E k \in 1..Len(rafQ) :
          /\ rafQ[k].fn \in {"countUp", "crypto"}
          /\ rafQ[k].slide \in lastOp.resets

\* C4: a slide that was reset and has not been restarted since displays its reset state
C4_ResetTextKept ==
    \A i \in superseded : ResetState(Slide(Cur, i), bigText[i + 1])

\* the effect switchEmojiEffect runs for a card: its lower-cased tag if that is rain or
\* fireworks with a non-blank glyph string, or stars
ConfiguredEffect(card) ==
    IF \/ /\ ToLower(card.emjEffect) \in {"rain", "fireworks"}
          /\ \E k \in 1..Len(card.emj) : ~IsBlank(card.emj[k])
       \/ ToLower(card.emjEffect) = "stars"
    THEN ToLower(card.emjEffect) ELSE "null"

\* the overlay runs the configured effect of slide i, or nothing if it configures none
RunsEffectOf(i) ==
    IF ConfiguredEffect(Slide(Cur, i)) # "null"
    THEN activeEmojiIndex = i /\ activeEmojiEffect = ConfiguredEffect(Slide(Cur, i))
    ELSE activeEmojiIndex = NullIdx /\ activeEmojiEffect = "null"

\* C5: with effects enabled, once checkSlideChange has processed a sample whose dominant
\* slide d is at least 50% visible, the overlay runs d's configured effect, or no effect
\* (index and effect null) if d configures none
C5_OverlayFollowsDominant ==
    (/\ lastOp.op = "scrollFrame"
     /\ effectsEnabled
     /\ 10 * DominantVisibility >= 5 * SlideWidth) => RunsEffectOf(DominantIndex)

\* a scroll sample has switched the overlay to the starfield of a slide tagged "Stars"
C5_Witness ==
    /\ lastOp.op = "scrollFrame"
    /\ effectsEnabled
    /\ lastOp.switchRequested = DominantIndex
    /\ Slide(Cur, DominantIndex).emjEffect = "Stars"
    /\ activeEmojiEffect = "stars"

\* the scheduled callbacks of particle frame loops
ParticleLoops ==
    {i \in 1..Len(rafQ \o frameQ) : (rafQ \o frameQ)[i].fn \in {"rain", "fireworks", "stars"}}

\* C6: at most one particle frame-loop callback is scheduled
C6_AtMostOneLoop == Cardinality(ParticleLoops) <= 1

\* C7: while effects are disabled no effect is active, every entity collection is empty
\* (so no frame callback moves an entity), and no processed scroll sample requests an effect
C7_DisabledIsQuiet ==
    ~effectsEnabled =>
        /\ activeEmojiEffect = "null"
        /\ activeEmojiIndex = NullIdx
        /\ emojiDrops = EmptyBag
        /\ fireworksParticles = EmptyBag
        /\ starParticles = EmptyBag
        /\ lastOp.op = "scrollFrame" => lastOp.switchRequested = NullIdx

\* a particle frame callback that was scheduled before effects were disabled has run
\* while they are disabled
C7_Witness ==
    /\ ~effectsEnabled
    /\ lastOp.op \in {"rain", "fireworks", "stars"}

\* C8: when toggleEffects has enabled effects, the overlay runs the configured effect of
\* the active slide, or no effect if that slide configures none
C8_ReenableRestoresActive ==
    (lastOp.op = "toggleEffects" /\ effectsEnabled) => RunsEffectOf(activeSlideIndex)

\* effects were re-enabled on a slide other than the first, whose effect runs again
C8_Witness ==
    /\ lastOp.op = "toggleEffects"
    /\ effectsEnabled
    /\ activeSlideIndex # 0
    /\ activeEmojiIndex = activeSlideIndex
    /\ activeEmojiEffect # "null"

\* the number of leading glyphs of shown that are the glyphs of final
RECURSIVE RevealedPrefix(_, _)
RevealedPrefix(shown, final) ==
    IF shown = <<>> \/ final = <<>> \/ Head(shown) # Head(final) THEN 0
    ELSE 1 + RevealedPrefix(Tail(shown), Tail(final))

\* C9: in a frame of a crypto field the shared counter of its run goes up by one exactly
\* when the field displays more revealed glyphs than before, and the field regenerates its
\* decoys exactly when the counter is then above its value at the field's previous frame
C9_SharedCounterCoupling ==
    [][(lastOp'.op = "crypto" /\ frameQ # <<>>) =>
          \E cb \in {Head(frameQ)} :
             \E shown \in {bigText'[cb.slide + 1].items[cb.item + 1][cb.field]},
                final \in {Slide(Cur, cb.slide).items[cb.item + 1][cb.field]} :
                /\ lastOp'.revealed = (RevealedPrefix(shown, final) > cb.lastRevealCount)
                /\ cb.run \in DOMAIN sharedState' =>
                      sharedState'[cb.run] =
                          sharedState[cb.run] + (IF lastOp'.revealed THEN 1 ELSE 0)
                /\ lastOp'.regenerated =
                      (sharedState[cb.run] + (IF lastOp'.revealed THEN 1 ELSE 0)
                          > cb.seenCounter)]_vars

\* a field that is still inside its stagger delay and has revealed nothing has regenerated
\* its decoys in the frame in which another field of the run revealed a glyph
C9_Witness ==
    /\ lastOp.op = "crypto"
    /\ lastOp.regenerated
    /\ ~lastOp.revealed
    /\ rafQ # <<>>
    /\ rafQ[Len(rafQ)].fn = "crypto"
    /\ rafQ[Len(rafQ)].lastRevealCount = 0
    /\ now - rafQ[Len(rafQ)].startTime <= rafQ[Len(rafQ)].startDelay

\* C10: the active slide changes only when a processed scroll sample has a dominant slide
\* that is at least 70% visible, and it becomes that slide
C10_OnlyVisibilityActivates ==
    [][activeSlideIndex' # activeSlideIndex =>
          /\ lastOp'.op = "scrollFrame"
          /\ 10 * DominantVisibility >= 7 * SlideWidth
          /\ activeSlideIndex' = DominantIndex]_vars

\* a navigation operation has started a smooth scroll to a slide other than the active one
C10_Witness ==
    /\ lastOp.op \in {"click", "keydown", "prevslide", "nextslide", "scrollToSlide", "mouseup"}
    /\ smoothTarget # NullIdx
    /\ smoothTarget # activeSlideIndex * SlideWidth
    /\ targetSlideIndex # activeSlideIndex

\* the operations that navigate to a slide: the picker's scrollToSlide, the arrow keys
\* and the release of a drag
NavigationOps == {"scrollToSlide", "keydown", "mouseup"}

\* the offset a navigation operation has requested a smooth scroll to (the current
\* offset if the strip is already there)
RequestedOffset == IF smoothTarget # NullIdx THEN smoothTarget ELSE scrollLeft

\* C11: right after a navigation operation the requested smooth scroll goes to
\* targetSlideIndex * slideWidth, so targetSlideIndex is the index navigated to
C11_NavigationSetsTarget ==
    lastOp.op \in NavigationOps => RequestedOffset = targetSlideIndex * SlideWidth

\* C12: once a scroll sample whose dominant slide is at least 50% visible has been
\* processed, the slide picker's label shows the dominant slide
C12_LabelShowsDominant ==
    (lastOp.op = "scrollFrame" /\ 10 * DominantVisibility >= 5 * SlideWidth)
        => pickerLabel = DominantIndex

----------------------------------------------------------------------------
(* The tracker on every offset the scroll listener can read, including the  *)
(* elastic overscroll of browsers that report offsets outside the           *)
(* scrollable range while the strip bounces at its ends                     *)

\* largest overscroll distance (in 1/SlideWidth of a slide width)
MaxOverscroll == 2

\* offsets before the first slide and beyond the last one
OverscrollOffsets ==
    {x \in (-MaxOverscroll)..((NumSlides(Cur) - 1) * SlideWidth + MaxOverscroll) :
        x < 0 \/ x > (NumSlides(Cur) - 1) * SlideWidth}

\* the strip is pulled past one of its ends and is at offset x when the next frame begins
Overscroll(x) ==
    /\ CanInput
    /\ ~dragState.active
    /\ ~scrollScheduled
    /\ x \in OverscrollOffsets
    /\ Commit(onScroll([Input EXCEPT !.scrollLeft = x, !.smoothTarget = NullIdx]), "scroll")

NextTracker ==
    \/ \E x \in ScrollOffsets : UserScroll(x)
    \/ \E x \in OverscrollOffsets : Overscroll(x)
    \/ BeginFrame(FrameStep)
    \/ \E rnd \in Rnd : RunScrollCallback(rnd)

SpecTracker == InitNav /\ [][NextTracker]_vars

\* the sum of the visibilities of the slides from index i on (in 1/SlideWidth)
RECURSIVE VisibilitySum(_)
VisibilitySum(i) == IF i >= NumSlides(Cur) THEN 0 ELSE Vis(i) + VisibilitySum(i + 1)

\* checkSlideChange has just processed the current offset
Processed == lastOp.op = "scrollFrame" /\ ~lastOp.threw

\* the current offset is within the scrollable range
InRange == scrollLeft >= 0 /\ scrollLeft <= (NumSlides(Cur) - 1) * SlideWidth

\* the visibilities of a processed sample sum to 1 at a non-integral ratio, and the
\* dominant slide is fully visible at an integral one
VisibilitiesComplete ==
    IF scrollLeft % SlideWidth # 0 THEN VisibilitySum(0) = SlideWidth
    ELSE DominantVisibility = SlideWidth

\* C13 (amended): for every processed scroll ratio within the scrollable range
\* (0 <= r <= N - 1) the visibilities sum to exactly 1 when r is non-integral, and the
\* dominant slide's visibility is 1 when r is an integer
C13_VisibilitySumInRange == (Processed /\ InRange) => VisibilitiesComplete

\* C13 as stated: the same for every scroll ratio checkSlideChange processes
C13_AsStated == Processed => VisibilitiesComplete

\* a sample between two slides was processed: both are partly visible, together 1
C13_Witness ==
    /\ Processed
    /\ InRange
    /\ scrollLeft % SlideWidth # 0
    /\ \E i \in 0..(NumSlides(Cur) - 2) :
          Vis(i) > 0 /\ Vis(i + 1) > 0 /\ Vis(i) + Vis(i + 1) = SlideWidth

\* what checkSlideChange computes as the dominant slide of the current offset
ComputedDominant ==
    MostVisible(Cur, scrollLeft, SlideWidth, 0,
                [mostVisibleIndex |-> 0, highestVisibility |-> 0])

\* C14: the dominant slide checkSlideChange computes for a processed sample has the
\* largest visibility of all slides, and is the one with the highest index among the
\* slides of that visibility; a slide the sample activated is that slide
C14_DominantIsMostVisible ==
    Processed =>
        \E best \in {ComputedDominant} :
            /\ best.mostVisibleIndex \in 0..(NumSlides(Cur) - 1)
            /\ best.highestVisibility = Vis(best.mostVisibleIndex)
            /\ \A i \in 0..(NumSlides(Cur) - 1) :
                  /\ Vis(i) <= best.highestVisibility
                  /\ Vis(i) = best.highestVisibility => i <= best.mostVisibleIndex
            /\ lastOp.activated => activeSlideIndex = best.mostVisibleIndex

\* a sample halfway between two slides was processed: both are 50% visible and the
\* dominant slide is the one with the higher index
C14_Witness ==
    /\ Processed
    /\ 2 * (scrollLeft % SlideWidth) = SlideWidth
    /\ Vis(scrollLeft \div SlideWidth) = Vis(scrollLeft \div SlideWidth + 1)
    /\ ComputedDominant.mostVisibleIndex = scrollLeft \div SlideWidth + 1

\* C15: when a scroll tick requests an emoji switch, the colours were already blended
\* for the tick's sample and activeSlideIndex already had the value the tick leaves
\* (the dominant slide if it is at least 70% visible), and the switch is requested for
\* the dominant slide of the tick's sample
C15_SwitchSeesFinalDominant ==
    [][(lastOp'.op = "scrollFrame" /\ lastOp'.switchRequested # NullIdx) =>
          /\ lastOp'.switchRequested = DominantIndex
          /\ lastOp'.switchSaw.sample = scrollLeft'
          /\ lastOp'.switchSaw.active = activeSlideIndex'
          /\ 10 * DominantVisibility >= 7 * SlideWidth =>
                lastOp'.switchSaw.active = DominantIndex]_vars

\* one scroll tick has activated a slide and requested the emoji switch for it
C15_Witness ==
    /\ lastOp.op = "scrollFrame"
    /\ lastOp.activated
    /\ lastOp.switchRequested = activeSlideIndex
    /\ lastOp.switchSaw.active = activeSlideIndex
    /\ lastOp.switchSaw.sample = scrollLeft
    /\ scrollLeft # 0

\* the pending callbacks, and among them the frame loops of value animations
Pending == rafQ \o frameQ

ValueLoops == {i \in 1..Len(Pending) : Pending[i].fn \in {"countUp", "textReveal", "crypto"}}

\* the element a value-animation frame loop writes to
LoopTarget(cb) == <<cb.slide, cb.item, cb.field>>

\* the elements that have a frame loop and whose slide was not reset since its last restart
AnimatedTargets ==
    {LoopTarget(Pending[i]) : i \in {j \in ValueLoops : Pending[j].slide \notin superseded}}

\* the number of stale frame loops: loops of a slide that was reset, and loops that a
\* later restart of the same element has replaced
StaleLoops == Cardinality(ValueLoops) - Cardinality(AnimatedTargets)

\* C16: at most one stale value-animation frame loop is alive
C16_AtMostOneStaleLoop == StaleLoops <= 1

----------------------------------------------------------------------------
(* The particle effects over many short frames: entities fall long enough   *)
(* to leave the viewport, firework cooldowns run out                        *)

\* largest number of short frames
MaxParticleTicks == 26

\* time between two short frames: the largest dt the loops integrate (50 ms)
ParticleFrameStep == MaxDtMs \div TimeUnitMs

\* offsets at which a slide fills the viewport
SlideStarts == {x \in ScrollOffsets : x % SlideWidth = 0}

\* a display refresh one short frame after the previous one
BeginParticleFrame ==
    /\ Idle
    /\ now + ParticleFrameStep <= StartTime + MaxParticleTicks * ParticleFrameStep
    /\ Commit([Cur EXCEPT !.now = now + ParticleFrameStep, !.frameQ = rafQ, !.rafQ = <<>>,
                          !.events = 0],
              "frame")

\* the viewer scrolls to a slide and, once a particle effect runs, watches it
SettleOn(x) == activeEmojiEffect = "null" /\ UserScroll(x)

InitParticles == Loaded(OverlayDecks, {TRUE})

\* settling on a slide of a deck with particle effects, effects enabled
NextParticles ==
    \/ \E x \in SlideStarts : SettleOn(x)
    \/ BeginParticleFrame
    \/ \E rnd \in Rnd : RunScrollCallback(rnd)
    \/ \E rnd \in Rnd : RunRain(rnd)
    \/ \E rnd \in Rnd : RunFireworks(rnd)
    \/ \E rnd \in Rnd : RunStars(rnd)
    \/ RunFadeIn
    \/ RunRainFade
    \/ \E i \in 1..2, u \in {0, 1} : FireTimer(i, u)

SpecParticles == InitParticles /\ [][NextParticles]_vars

\* startEmojiRain: dropCount
RainPoolSize == Max(30, Min(70, InnerWidth \div 18))

\* startStarfield: count
StarPoolSize == Max(80, Min(160, InnerWidth \div 6))

\* C17: while the rain or the starfield effect is active its pool holds exactly the
\* entities it was spawned with, on every tick, recycling ticks included
C17_PoolSizeConstant ==
    /\ activeEmojiEffect = "rain" => BagCardinality(emojiDrops) = RainPoolSize
    /\ activeEmojiEffect = "stars" => BagCardinality(starParticles) = StarPoolSize

\* a starfield tick has moved a star that left the viewport back above its top
C17_Witness ==
    /\ lastOp.op = "stars"
    /\ activeEmojiEffect = "stars"
    /\ \E star \in DOMAIN starParticles : starParticles[star] > 0 /\ star.y < 0

\* the number of live firework particles
LiveParticles == BagCardinality(fireworksParticles)

\* C18: a fireworks frame step adds particles only by a burst, creates a burst only when
\* fewer than 28 particles are left after the expired ones were removed and the cooldown
\* is at most 0, and restarts the cooldown in [280, 700]; two such bursts are at least
\* 280 ms of simulated time apart
C18_SpawnIsGated ==
    [][lastOp'.op = "fireworks" =>
          /\ LiveParticles' > LiveParticles => lastOp'.spawned
          /\ lastOp'.spawned =>
                /\ lastOp'.spawnSaw.live < FireworksBudget
                /\ lastOp'.spawnSaw.cooldown <= 0
                /\ fireworksCooldown' >= MinCooldown
                /\ fireworksCooldown' <= MaxCooldown
                /\ lastOp'.spawnSaw.since # NullTime
                      => lastOp'.spawnSaw.since >= MinCooldown]_vars

\* a fireworks frame step creates the second cooldown-gated burst of a run
C18_Witness ==
    /\ lastOp.op = "fireworks"
    /\ lastOp.spawned
    /\ lastOp.spawnSaw.since # NullTime
    /\ lastOp.spawnSaw.live > 0

\* the state in which buildSlideElements first rendered slide i, for the shown state of
\* a slide whose type resetSlideEffect handles (list decoys are drawn from the reset
\* alphabet)
AsFirstRendered(i, shown) ==
    /\ shown.text = InitialBigText(Slide(Cur, i), i, 0).text
    /\ Slide(Cur, i).type = "list" => FullyDecoy(Slide(Cur, i), shown)

\* C19: whatever a slide displayed before, after resetSlideEffect it displays the text
\* buildSlideElements first rendered (start value text, first option), and a list
\* displays every item in decoy glyphs only
C19_ResetRestoresInitial ==
    [][\A i \in lastOp'.resets : AsFirstRendered(i, bigText'[i + 1])]_vars

\* a slide is reset whose animation had progressed: it was completed, or its crypto
\* loops had revealed characters
C19_Witness ==
    /\ lastOp.resets # {}
    /\ \A i \in lastOp.resets : AsFirstRendered(i, bigText[i + 1])
    /\ \E i \in lastOp.resets :
          /\ Slide(Cur, i).type \in {"countup", "list"}
          /\ \E k \in 1..Len(rafQ) :
                /\ rafQ[k].slide = i
                /\ rafQ[k].fn = "crypto" => rafQ[k].lastRevealCount > 0
                /\ rafQ[k].fn = "countUp" => rafQ[k].startTime < now

----------------------------------------------------------------------------
(* Text reveals over enough frames for two runs on one slide to overlap and  *)
(* complete                                                                 *)

\* largest number of frames of a text-reveal session
MaxRevealTicks == 6

\* a display refresh FrameStep after the previous one
BeginRevealFrame ==
    /\ Idle
    /\ now + FrameStep <= StartTime + MaxRevealTicks * FrameStep
    /\ Commit([Cur EXCEPT !.now = now + FrameStep, !.frameQ = rafQ, !.rafQ = <<>>,
                          !.events = 0],
              "frame")

\* scrolling through the text-reveal deck
NextReveal ==
    \/ \E x \in ScrollOffsets : UserScroll(x)
    \/ BeginRevealFrame
    \/ \E rnd \in Rnd : RunScrollCallback(rnd)
    \/ RunTextReveal

SpecReveal == Loaded({DeckReveal}, {FALSE}) /\ [][NextReveal]_vars


\* the final resolved text of text-reveal slide i
FinalText(i) == substituteVariables(Slide(Cur, i).reveal_text, RecapData)

\* slide i carries a text reveal
IsReveal(i) == Slide(Cur, i).hasEffect /\ Slide(Cur, i).type = "text_reveal"

\* floor(eased * k) of the run of callback cb in the frame being run
SelectedIndex(cb) ==
    (EaseNum(now - cb.startTime, cb.duration) * Len(Slide(Cur, cb.slide).reveal_scroll_options))
        \div EaseDen(cb.duration)

\* a frame of a text-reveal run: the selected index has not decreased, the text is
\* written exactly when the index changed, and the last frame displays the final text
\* and schedules nothing
RevealFrameStep ==
    lastOp'.op = "textReveal" =>
        LET cb == Head(frameQ)
            i == cb.slide
            done == now - cb.startTime >= cb.duration
        IN /\ SelectedIndex(cb) >= cb.lastIndex
           /\ IF done
              THEN /\ bigText'[i + 1].text = FinalText(i)
                   /\ Len(rafQ') = Len(rafQ)
              ELSE /\ lastOp'.wrote = (SelectedIndex(cb) # cb.lastIndex)
                   /\ lastOp'.wrote =>
                         bigText'[i + 1].text =
                             Slide(Cur, i).reveal_scroll_options[SelectedIndex(cb) + 1]
                   /\ ~lastOp'.wrote => bigText'[i + 1] = bigText[i + 1]
                   /\ Len(rafQ') = Len(rafQ) + 1

\* a text reveal without options displays the final text at once and starts no loop
RevealWithoutOptions ==
    \A i \in lastOp'.restarted :
        (IsReveal(i) /\ Slide(Cur, i).reveal_scroll_options = <<>>) =>
            /\ bigText'[i + 1].text = FinalText(i)
            /\ \A k \in 1..Len(rafQ') : rafQ'[k].slide # i

\* a displayed final text is replaced only when the slide is reset or restarted
FinalTextStays ==
    \A i \in 0..(NumSlides(Cur) - 1) :
        (IsReveal(i) /\ bigText[i + 1].text = FinalText(i)
                     /\ bigText'[i + 1].text # FinalText(i))
            => i \in lastOp'.resets \cup lastOp'.restarted

\* the frames of text reveals, except that the final text stays
RevealFrames == [][RevealFrameStep /\ RevealWithoutOptions]_vars

\* C20: in a text reveal the selected index never decreases, the text is written only in
\* frames in which the index changed, the completing frame displays the final resolved
\* text, which then stays displayed; without options the final text is displayed at once
\* and no frame loop is started
C20_RevealContract == [][RevealFrameStep /\ RevealWithoutOptions /\ FinalTextStays]_vars

----------------------------------------------------------------------------
(* Value animations run to their last frame *)

\* largest number of frames of a session in which value animations complete
MaxLongTicks == 7

\* a deck of count-ups: a money amount with a thousands separator, and a count with an
\* explicit step of two decimals
DeckMoney ==
    <<TitleCard,
      [Card("countup") EXCEPT !.start_num = <<"$", "0">>,
                              !.end_num = <<"$", "1", ",", "2", "3", "4", ".", "5", "0">>],
      [Card("countup") EXCEPT !.start_num = <<"1">>, !.end_num = <<"2", ".", "5">>,
                              !.step_decimals = 2]>>

\* a deck with a list whose texts contain punctuation and a blank
DeckCrypto ==
    <<TitleCard,
      [Card("list") EXCEPT !.items = <<[title |-> <<"a", "b", ":", "c">>,
                                        subtitle |-> <<"x", " ", "y">>]>>],
      Card("static")>>

\* a display refresh FrameStep after the previous one
BeginLongFrame ==
    /\ Idle
    /\ now + FrameStep <= StartTime + MaxLongTicks * FrameStep
    /\ Commit([Cur EXCEPT !.now = now + FrameStep, !.frameQ = rafQ, !.rafQ = <<>>,
                          !.events = 0],
              "frame")

\* settling on the slides of a deck of count-ups or of a list
NextComplete ==
    \/ \E x \in SlideStarts : UserScroll(x)
    \/ BeginLongFrame
    \/ \E rnd \in Rnd : RunScrollCallback(rnd)
    \/ RunCountUp
    \/ \E u \in {0, 1} : RunCrypto(u)

SpecComplete == Loaded({DeckMoney, DeckCrypto}, {FALSE}) /\ [][NextComplete]_vars

\* runCountUpEffect: precision
CountUpPrecision(card) ==
    Max(Max(parseNumberParts(substituteVariables(card.start_num, RecapData)).decimals,
            parseNumberParts(substituteVariables(card.end_num, RecapData)).decimals),
        card.step_decimals)

\* runCountUpEffect: prefix
CountUpPrefix(card) ==
    IF card.prefix # Undefined THEN card.prefix
    ELSE parseNumberParts(substituteVariables(card.start_num, RecapData)).prefix

\* the step is the last frame of a count-up loop of slide i
LastCountFrame(i) ==
    /\ lastOp'.op = "countUp"
    /\ Head(frameQ).slide = i
    /\ now - Head(frameQ).startTime >= CountUpDuration

\* C21: the count-up from "$0" to "$1,234.50" without a step has precision 2 and prefix
\* "$", and its last frame displays "$1234.50"
C21_MoneyCountUp ==
    [][LastCountFrame(1) =>
          /\ CountUpPrecision(Slide(Cur, 1)) = 2
          /\ CountUpPrefix(Slide(Cur, 1)) = <<"$">>
          /\ bigText'[2].text = <<"$", "1", "2", "3", "4", ".", "5", "0">>]_vars

\* floor(eased * |T|) of the field of crypto callback cb in the frame being run
RevealCount(cb) ==
    LET T == Slide(Cur, cb.slide).items[cb.item + 1][cb.field]
        elapsed == now - cb.startTime
    IN IF elapsed > cb.startDelay
       THEN (EaseNum(elapsed - cb.startDelay, cb.duration) * Len(T)) \div EaseDen(cb.duration)
       ELSE 0

\* C22: every frame of a crypto reveal of target text T displays a text of the length
\* of T that shows T's characters at the positions below revealCount and at every
\* non-alphanumeric position; revealCount does not decrease and does not exceed |T|
C22_CryptoFrame ==
    [][lastOp'.op = "crypto" =>
          LET cb == Head(frameQ)
              T == Slide(Cur, cb.slide).items[cb.item + 1][cb.field]
              shown == bigText'[cb.slide + 1].items[cb.item + 1][cb.field]
          IN /\ Len(shown) = Len(T)
             /\ \A k \in 1..Len(T) : (k <= RevealCount(cb) \/ ~IsAlnum(T[k])) => shown[k] = T[k]
             /\ RevealCount(cb) >= cb.lastRevealCount
             /\ RevealCount(cb) <= Len(T)]_vars

\* a frame has revealed a proper prefix of a text and displays the punctuation beyond it
\* next to a decoy glyph
C22_Witness ==
    /\ lastOp.op = "crypto"
    /\ rafQ # <<>>
    /\ LET cb == rafQ[Len(rafQ)]
           T == Slide(Cur, cb.slide).items[cb.item + 1][cb.field]
           shown == bigText[cb.slide + 1].items[cb.item + 1][cb.field]
       IN /\ cb.fn = "crypto"
          /\ cb.lastRevealCount >= 1
          /\ \E k \in (cb.lastRevealCount + 1)..Len(T) : ~IsAlnum(T[k]) /\ shown[k] = T[k]
          /\ \E k \in (cb.lastRevealCount + 1)..Len(T) : IsAlnum(T[k]) /\ shown[k] # T[k]

\* C23: while effects are disabled the overlay is faded out
C23_DisabledOverlayHidden == ~effectsEnabled => overlayOpacity = 0

\* C24: only the entity collection of the active overlay variant can be non-empty, and
\* the active variant is rain, fireworks, stars or none
C24_VariantsExclusive ==
    /\ activeEmojiEffect \in {"null", "rain", "fireworks", "stars"}
    /\ emojiDrops # EmptyBag => activeEmojiEffect = "rain"
    /\ fireworksParticles # EmptyBag => activeEmojiEffect = "fireworks"
    /\ starParticles # EmptyBag => activeEmojiEffect = "stars"

\* the starfield has been started while the rain was running: its stars are live and
\* the fade-in of the rain is still pending
C24_Witness ==
    /\ lastOp.op = "scrollFrame"
    /\ activeEmojiEffect = "stars"
    /\ starParticles # EmptyBag
    /\ \/ \E k \in 1..Len(timers) : timers[k].fn = "rainFadeIn"
       \/ \E k \in 1..Len(rafQ) : rafQ[k].fn = "rainFade"

\* C25: while a pointer drag is active scroll-snap is suspended
C25_NoSnapWhileDragging == dragState.active => scrollSnapType = "none"

\* the index of the slide whose left edge is nearest to offset x (the upper one of two
\* equally near)
NearestIndex(x) ==
    CHOOSE i \in (-1)..(NumSlides(Cur) + 1) :
        2 * i * SlideWidth - SlideWidth <= 2 * x /\ 2 * x < 2 * i * SlideWidth + SlideWidth

\* the slide chosen by a release at the current offset of a drag started at
\* dragState.startScroll
ChosenOnRelease ==
    LET displacement == scrollLeft - dragState.startScroll
    IN IF 4 * displacement > SlideWidth
       THEN Min(NearestIndex(dragState.startScroll) + 1, NumSlides(Cur) - 1)
       ELSE IF 4 * displacement < -SlideWidth
       THEN Max(NearestIndex(dragState.startScroll) - 1, 0)
       ELSE NearestIndex(scrollLeft)

\* C26: a drag release chooses the next or previous slide of the start offset when the
\* displacement exceeds a quarter of the slide width and the nearest slide otherwise; the
\* chosen index is within the deck and a smooth scroll to its offset is requested
C26_ReleaseTarget ==
    lastOp.op = "mouseup" =>
        /\ ChosenOnRelease \in 0..(NumSlides(Cur) - 1)
        /\ RequestedOffset = ChosenOnRelease * SlideWidth

\* a release after a drag of more than a quarter slide towards the end that started
\* nearest to the last slide
C26_Witness ==
    /\ lastOp.op = "mouseup"
    /\ 4 * (scrollLeft - dragState.startScroll) > SlideWidth
    /\ NearestIndex(dragState.startScroll) = NumSlides(Cur) - 1
    /\ smoothTarget = (NumSlides(Cur) - 1) * SlideWidth

----------------------------------------------------------------------------
(* Colour arithmetic (hexToRGB .. blendColorsHSV). The numbers of the       *)
(* script are modelled as exact fractions [n, d] in lowest terms, d > 0.    *)

RECURSIVE GCD(_, _)
GCD(a, b) == IF b = 0 THEN a ELSE GCD(b, a % b)

\* the fraction n / d in lowest terms
Q(n, d) ==
    LET g == GCD(Abs(n), Abs(d))
        sign == IF d < 0 THEN -1 ELSE 1
    IN [n |-> sign * (n \div g), d |-> sign * (d \div g)]
QInt(k) == [n |-> k, d |-> 1]
QAdd(x, y) ==
    LET l == (x.d \div GCD(x.d, y.d)) * y.d
    IN Q(x.n * (l \div x.d) + y.n * (l \div y.d), l)
QNeg(x) == [n |-> -x.n, d |-> x.d]
QSub(x, y) == QAdd(x, QNeg(y))
QMul(x, y) ==
    LET a == Q(x.n, y.d)
        b == Q(y.n, x.d)
    IN [n |-> a.n * b.n, d |-> a.d * b.d]
QDiv(x, y) == QMul(x, Q(y.d, y.n))
QLess(x, y) == QSub(x, y).n < 0
QMax(x, y) == IF QLess(x, y) THEN y ELSE x
QMin(x, y) == IF QLess(y, x) THEN y ELSE x
\* Math.floor
QFloor(x) == x.n \div x.d
\* Math.round: the nearest integer, halves upwards
QRound(x) == QFloor(QAdd(x, Q(1, 2)))
\* the % operator: the remainder has the sign of the dividend
QRem(x, m) ==
    LET quotient == QDiv(x, m)
        truncated == IF quotient.n < 0 THEN -QFloor(QNeg(quotient)) ELSE QFloor(quotient)
    IN QSub(x, QMul(QInt(truncated), m))
IntRem(i, m) == IF i < 0 THEN -((-i) % m) ELSE i % m

\* the digits of Number.prototype.toString(16)
HexDigits == <<"0", "1", "2", "3", "4", "5", "6", "7", "8", "9", "a", "b", "c", "d", "e", "f">>
UpperHexDigits == <<"0", "1", "2", "3", "4", "5", "6", "7", "8", "9", "A", "B", "C", "D", "E", "F">>
\* [a-f\d] under the i flag
IsHexChar(ch) == \E i \in 1..16 : ch \in {HexDigits[i], UpperHexDigits[i]}
\* parseInt(ch, 16) of one digit
HexValue(ch) == (CHOOSE i \in 1..16 : ch \in {HexDigits[i], UpperHexDigits[i]}) - 1
RECURSIVE ToHex(_)
ToHex(k) == IF k < 16 THEN <<HexDigits[k + 1]>> ELSE ToHex(k \div 16) \o <<HexDigits[(k % 16) + 1]>>

\* a channel left unassigned by the switch of hsvToRGB (Math.round(undefined * 255))
NaN == -1

hexToRGB(hex) ==
    LET body == IF Len(hex) > 0 /\ hex[1] = "#" THEN Tail(hex) ELSE hex
        digits == \A i \in 1..Len(body) : IsHexChar(body[i])
    IN IF Len(body) = 3 /\ digits
       THEN [r |-> 17 * HexValue(body[1]), g |-> 17 * HexValue(body[2]),
             b |-> 17 * HexValue(body[3])]
       ELSE IF Len(body) = 6 /\ digits
       THEN [r |-> 16 * HexValue(body[1]) + HexValue(body[2]),
             g |-> 16 * HexValue(body[3]) + HexValue(body[4]),
             b |-> 16 * HexValue(body[5]) + HexValue(body[6])]
       ELSE [r |-> 0, g |-> 0, b |-> 0]

rgbToHSV(r0, g0, b0) ==
    LET r == Q(r0, 255)
        g == Q(g0, 255)
        b == Q(b0, 255)
        max == QMax(r, QMax(g, b))
        min == QMin(r, QMin(g, b))
        d == QSub(max, min)
        s == IF max = QInt(0) THEN QInt(0) ELSE QDiv(d, max)
        h == IF max = min THEN QInt(0)
             ELSE IF max = r
             THEN QDiv(QAdd(QDiv(QSub(g, b), d), QInt(IF QLess(g, b) THEN 6 ELSE 0)), QInt(6))
             ELSE IF max = g
             THEN QDiv(QAdd(QDiv(QSub(b, r), d), QInt(2)), QInt(6))
             ELSE QDiv(QAdd(QDiv(QSub(r, g), d), QInt(4)), QInt(6))
    IN [h |-> QMul(h, QInt(360)), s |-> QMul(s, QInt(100)), v |-> QMul(max, QInt(100))]

\* hsvToRGB with the q and t ramps exchanged
hsvToRGB_SwapRamps(h0, s0, v0) ==
    LET h == QDiv(h0, QInt(360))
        s == QDiv(s0, QInt(100))
        v == QDiv(v0, QInt(100))
        i == QFloor(QMul(h, QInt(6)))
        f == QSub(QMul(h, QInt(6)), QInt(i))
        p == QMul(v, QSub(QInt(1), s))
        t == QMul(v, QSub(QInt(1), QMul(f, s)))
        q == QMul(v, QSub(QInt(1), QMul(QSub(QInt(1), f), s)))
        case == IntRem(i, 6)
        rgb == CASE case = 0 -> <<v, t, p>>
                 [] case = 1 -> <<q, v, p>>
                 [] case = 2 -> <<p, v, t>>
                 [] case = 3 -> <<p, q, v>>
                 [] case = 4 -> <<t, p, v>>
                 [] case = 5 -> <<v, p, q>>
                 [] OTHER -> <<>>
    IN IF rgb = <<>> THEN [r |-> NaN, g |-> NaN, b |-> NaN]
       ELSE [r |-> QRound(QMul(rgb[1], QInt(255))), g |-> QRound(QMul(rgb[2], QInt(255))),
             b |-> QRound(QMul(rgb[3], QInt(255)))]

hsvToRGB(h0, s0, v0) ==
    LET h == QDiv(h0, QInt(360))
        s == QDiv(s0, QInt(100))
        v == QDiv(v0, QInt(100))
        i == QFloor(QMul(h, QInt(6)))
        f == QSub(QMul(h, QInt(6)), QInt(i))
        p == QMul(v, QSub(QInt(1), s))
        q == QMul(v, QSub(QInt(1), QMul(f, s)))
        t == QMul(v, QSub(QInt(1), QMul(QSub(QInt(1), f), s)))
        case == IntRem(i, 6)
        rgb == CASE case = 0 -> <<v, t, p>>
                 [] case = 1 -> <<q, v, p>>
                 [] case = 2 -> <<p, v, t>>
                 [] case = 3 -> <<p, q, v>>
                 [] case = 4 -> <<t, p, v>>
                 [] case = 5 -> <<v, p, q>>
                 [] OTHER -> <<>>
    IN IF rgb = <<>> THEN [r |-> NaN, g |-> NaN, b |-> NaN]
       ELSE [r |-> QRound(QMul(rgb[1], QInt(255))), g |-> QRound(QMul(rgb[2], QInt(255))),
             b |-> QRound(QMul(rgb[3], QInt(255)))]

hexToHSV(hex) ==
    LET rgb == hexToRGB(hex)
    IN rgbToHSV(rgb.r, rgb.g, rgb.b)

\* hsvToHex without the leading 1 << 24 that pads the digits
hsvToHex_NoPad(hsv) ==
    LET rgb == hsvToRGB(hsv.h, hsv.s, hsv.v)
    IN IF rgb.b = NaN THEN <<"#", "a", "N">>
       ELSE <<"#">> \o ToHex(rgb.r * 65536 + rgb.g * 256 + rgb.b)

\* NaN << 16 is 0 and 0 + NaN is NaN, whose string loses its first character
hsvToHex(hsv) ==
    LET rgb == hsvToRGB(hsv.h, hsv.s, hsv.v)
    IN IF rgb.b = NaN THEN <<"#", "a", "N">>
       ELSE <<"#">> \o Tail(ToHex(16777216 + rgb.r * 65536 + rgb.g * 256 + rgb.b))

\* the hue delta with no correction for the wrap at 360 degrees
HueDelta_Raw(h1, h2) == QSub(h2, h1)

\* blendColorsHSV: the hue delta moved onto the shortest arc
HueDelta(h1, h2) ==
    LET raw == QSub(h2, h1)
        lowered == IF QLess(QInt(180), raw) THEN QSub(raw, QInt(360)) ELSE raw
    IN IF QLess(lowered, QInt(-180)) THEN QAdd(lowered, QInt(360)) ELSE lowered

\* blendColorsHSV: the blended colour before it is formatted
Blended(hex1, hex2, ratio) ==
    LET hsv1 == hexToHSV(hex1)
        hsv2 == hexToHSV(hex2)
        hueDelta == HueDelta(hsv1.h, hsv2.h)
    IN [h |-> QRem(QAdd(QAdd(hsv1.h, QMul(hueDelta, ratio)), QInt(360)), QInt(360)),
        s |-> QAdd(hsv1.s, QMul(QSub(hsv2.s, hsv1.s), ratio)),
        v |-> QAdd(hsv1.v, QMul(QSub(hsv2.v, hsv1.v), ratio))]

blendColorsHSV(hex1, hex2, ratio) == hsvToHex(Blended(hex1, hex2, ratio))

(* blendColorsHSV applied to slide colours *)

\* colours whose channels are 0, 1/5, 3/5 or 1 of full scale
CoarseChannels == {<<"0", "0">>, <<"3", "3">>, <<"9", "9">>, <<"f", "f">>}
CoarseColours == {<<"#">> \o r \o g \o b : r, g, b \in CoarseChannels}
\* the fallback colours of buildSlideElements and drawRecapSlide, and other spellings
\* of a colour that hexToRGB accepts or rejects
DefaultColours ==
    {<<"#", "2", "b", "c", "2", "4", "e">>, <<"#", "f", "f", "f">>,
     <<"#", "e", "b", "c", "e", "2", "a">>, <<"#", "0", "0", "0">>}
OtherColours ==
    {<<"#", "F", "F", "0", "0", "0", "1">>, <<"f", "f", "0", "1", "0", "0">>,
     <<"#", "8", "0", "8", "0", "8", "0">>, <<"#", "0", "1", "0", "0", "f", "e">>,
     <<"r", "e", "d">>}
SlideColours == CoarseColours \cup DefaultColours \cup OtherColours
\* the blend ratios k / SlideWidth of updateColors, and the closing ratio 1
Ratios == {Q(k, SlideWidth) : k \in 0..SlideWidth}
EndRatios == {QInt(0), QInt(1)}

\* a call blendColorsHSV(hex1, hex2, ratio) that has not returned yet
Calling(hex1, hex2, ratio) ==
    \E cards \in {DeckPlain}, rnd \in {CHOOSE r \in Rnd : TRUE} :
        Holds([initHorizontalScroll(Built(cards, FALSE, rnd.u), rnd) EXCEPT
                   !.blend = [hex1 |-> hex1, hex2 |-> hex2, ratio |-> ratio, returned |-> <<>>]],
              "showRecapSlides")

InitBlend ==
    \/ \E hex1, hex2 \in CoarseColours, ratio \in Ratios : Calling(hex1, hex2, ratio)
    \/ \E hex1, hex2 \in SlideColours, ratio \in EndRatios : Calling(hex1, hex2, ratio)

\* the call returns
ReturnBlend ==
    /\ blend.hex1 # <<>>
    /\ blend.returned = <<>>
    /\ Commit([Cur EXCEPT !.blend.returned = blendColorsHSV(blend.hex1, blend.hex2, blend.ratio)],
              "blendColorsHSV")

NextBlend == ReturnBlend

SpecBlend == InitBlend /\ [][NextBlend]_vars

\* the call under observation has returned
Returned == blend.returned # <<>>

\* C27: blendColorsHSV(c1, c2, 0) is the colour c1 and blendColorsHSV(c1, c2, 1) is
\* the colour c2, for every pair of colours
C27_BlendEndpoints ==
    Returned =>
        /\ blend.ratio = QInt(0) => hexToRGB(blend.returned) = hexToRGB(blend.hex1)
        /\ blend.ratio = QInt(1) => hexToRGB(blend.returned) = hexToRGB(blend.hex2)

\* a blend at ratio 1 between two slide colours whose hues lie across the wrap at 360
C27_Witness ==
    /\ Returned
    /\ blend.ratio = QInt(1)
    /\ blend.hex1 = <<"#", "e", "b", "c", "e", "2", "a">>
    /\ blend.hex2 = <<"#", "F", "F", "0", "0", "0", "1">>
    /\ blend.returned = <<"#", "f", "f", "0", "0", "0", "1">>

\* the hues of the two arguments of the call under observation, and the hue blended
FirstHue == hexToHSV(blend.hex1).h
SecondHue == hexToHSV(blend.hex2).h
BlendedHue == Blended(blend.hex1, blend.hex2, blend.ratio).h
QAbs(x) == IF x.n < 0 THEN QNeg(x) ELSE x
\* the length of the shorter of the two arcs between hues a and b
ArcLength(a, b) == QMin(QAbs(QSub(a, b)), QSub(QInt(360), QAbs(QSub(a, b))))
Within(x, low, high) == ~QLess(x, low) /\ ~QLess(high, x)

\* C28: the hue delta of a blend lies in [-180, 180], and the blended hue lies in
\* [0, 360) on the shorter arc between the two hues
C28_ShortestArc ==
    Returned =>
        /\ Within(HueDelta(FirstHue, SecondHue), QInt(-180), QInt(180))
        /\ Within(BlendedHue, QInt(0), QInt(360)) /\ BlendedHue # QInt(360)
        /\ QAdd(ArcLength(FirstHue, BlendedHue), ArcLength(BlendedHue, SecondHue))
               = ArcLength(FirstHue, SecondHue)

\* a blend halfway between two hues more than 180 degrees apart, which passes through 0
C28_Witness ==
    /\ Returned
    /\ blend.ratio = Q(1, 2)
    /\ QLess(QSub(SecondHue, FirstHue), QInt(-180))
    /\ QLess(BlendedHue, SecondHue)
    /\ BlendedHue # QInt(0)

\* the channels of the colour the call under observation formats
BlendedRGB == Let(Blended(blend.hex1, blend.hex2, blend.ratio), LAMBDA hsv : hsvToRGB(hsv.h, hsv.s, hsv.v))

\* C29: every colour the blend produces has three integer channels in [0, 255] and is
\* written as '#' followed by exactly six hexadecimal digits
C29_ValidColour ==
    Returned =>
        /\ BlendedRGB.r \in 0..255 /\ BlendedRGB.g \in 0..255 /\ BlendedRGB.b \in 0..255
        /\ Len(blend.returned) = 7
        /\ blend.returned[1] = "#"
        /\ \A i \in 2..7 : \E k \in 1..16 : blend.returned[i] = HexDigits[k]
        /\ hexToRGB(blend.returned) = BlendedRGB

\* a blend strictly between two different colours whose red channel is below 16
C29_Witness ==
    /\ Returned
    /\ blend.ratio = Q(3, 10)
    /\ hexToRGB(blend.hex1) # hexToRGB(blend.hex2)
    /\ BlendedRGB.r \in 1..15
    /\ blend.returned \notin CoarseColours

\* C30: the frame callback of the scroll listener (updateColors followed by
\* checkSlideChange) completes without an exception at every offset the strip reports,
\* offsets below 0 and beyond the last slide included
C30_TickNeverThrows == lastOp.op = "scrollFrame" => ~lastOp.threw

----------------------------------------------------------------------------
(* Presentation start: showRecapSlides from the freshly loaded script *)

\* the renderer state of the freshly loaded script, before any recap is shown
Unloaded ==
    [Built(<<>>, TRUE, 0) EXCEPT !.page = [container |-> "empty", message |-> "", tracking |-> FALSE]]

\* what fetch('/static/recap-style.json') and response.json() can do
FetchOutcomes == {"ok", "rejected", "notJSON"}
\* error.message of the two failures
ErrorMessage(outcome) ==
    IF outcome = "rejected" THEN "Failed to fetch" ELSE "Unexpected token"

\* showRecapSlides that builds the slides and starts tracking before the fetch has
\* been found to have failed
showRecapSlides_BuildFirst(state, outcome, cards, enabled, rnd) == Let(state, LAMBDA s :
    IF outcome = "ok"
    THEN initHorizontalScroll(Built(cards, enabled, rnd.u), rnd)
    ELSE [initHorizontalScroll(Built(cards, enabled, rnd.u), rnd) EXCEPT
              !.page.container = "fallback", !.page.message = ErrorMessage(outcome)])

\* showRecapSlides: the style definition is fetched and parsed inside the try block,
\* before buildSlideElements and initHorizontalScroll; a failure goes to the catch block
showRecapSlides(state, outcome, cards, enabled, rnd) == Let(state, LAMBDA s :
    IF outcome = "ok"
    THEN initHorizontalScroll(Built(cards, enabled, rnd.u), rnd)
    ELSE [s EXCEPT !.page.container = "fallback", !.page.message = ErrorMessage(outcome)])

ShowRecapSlides ==
    /\ page.container = "empty"
    /\ \E outcome \in FetchOutcomes, cards \in {DeckPlain}, rnd \in Rnd :
           Commit(showRecapSlides(Cur, outcome, cards, FALSE, rnd), "showRecapSlides")

InitStart == Holds(Unloaded, "")

\* the listeners exist once initHorizontalScroll has run; the buttons that call
\* prevslide and nextslide exist from the beginning
NextStart ==
    \/ ShowRecapSlides
    \/ page.tracking /\ NextTracker
    \/ ~page.tracking /\ PrevSlide
    \/ ~page.tracking /\ NextSlide
    \/ ~page.tracking /\ BeginFrame(FrameStep)

SpecStart == InitStart /\ [][NextStart]_vars

\* C31: when the style definition cannot be loaded the container shows the fallback
\* message, no slide has been built, and scroll tracking and its handlers do not exist
C31_FailedStartIsClean ==
    page.container = "fallback" =>
        /\ page.message # ""
        /\ NumSlides(Cur) = 0 /\ bigText = <<>>
        /\ ~page.tracking /\ ~scrollScheduled
        /\ rafQ = <<>> /\ frameQ = <<>> /\ timers = <<>>
        /\ scrollLeft = 0 /\ activeSlideIndex = 0 /\ targetSlideIndex = 0

\* the fetch was rejected and the next button has been pressed on the fallback page
C31_Witness ==
    /\ page.container = "fallback"
    /\ page.message = "Failed to fetch"
    /\ lastOp.op = "nextslide"

----------------------------------------------------------------------------
(* Overlay effects configured without a usable glyph *)

\* decks with a rain or fireworks slide whose glyph string is blank or empty
DeckBlankRain == DeckFireworks
DeckBlankFireworks ==
    <<TitleCard,
      [Card("static") EXCEPT !.emjEffect = "Rain", !.emj = <<"a", " ", "b">>],
      [Card("static") EXCEPT !.emjEffect = "fireworks", !.emj = <<" ", "\t">>]>>

NextSuppress ==
    \/ \E x \in ScrollOffsets : UserScroll(x)
    \/ \E rnd \in Rnd : ToggleEffects(rnd)
    \/ BeginFrame(FrameStep)
    \/ \E rnd \in Rnd : RunScrollCallback(rnd)
    \/ \E rnd \in Rnd : RunRain(rnd)
    \/ \E rnd \in Rnd : RunFireworks(rnd)
    \/ RunFadeIn
    \/ RunRainFade
    \/ \E i \in 1..2, u \in {0, 1} : FireTimer(i, u)

SpecSuppress == Loaded({DeckBlankRain, DeckBlankFireworks}, {TRUE}) /\ [][NextSuppress]_vars

\* slide i configures rain or fireworks and has no usable glyph
GlyphlessEffect(i) ==
    /\ HasSlide(Cur, i)
    /\ ToLower(Slide(Cur, i).emjEffect) \in {"rain", "fireworks"}
    /\ UsableGlyphs(Slide(Cur, i).emj) = <<>>

\* the last handler asked switchEmojiEffect for a slide with a glyphless effect
SwitchedToGlyphless == lastOp.switchRequested # NullIdx /\ GlyphlessEffect(lastOp.switchRequested)

\* a particle frame callback that runs while no effect is active returns at its guard
DeadLoopStep ==
    (activeEmojiEffect = "null" /\ lastOp'.op \in {"rain", "fireworks", "stars"}) =>
        /\ Cardinality(ParticleLoops') < Cardinality(ParticleLoops)
        /\ emojiDrops' = EmptyBag /\ fireworksParticles' = EmptyBag /\ starParticles' = EmptyBag
        /\ activeEmojiEffect' = "null" /\ overlayOpacity' = overlayOpacity

\* C32: a switch to a slide whose rain or fireworks effect has no usable glyph creates no
\* entity, leaves no effect active, cancels the frame loop (a particle callback that is
\* still queued returns without rescheduling) and fades the overlay out
C32_GlyphlessSuppressed ==
    /\ [](SwitchedToGlyphless =>
            /\ emojiDrops = EmptyBag /\ fireworksParticles = EmptyBag /\ starParticles = EmptyBag
            /\ activeEmojiEffect = "null" /\ activeEmojiIndex = NullIdx
            /\ emojiAnimationFrame = NullHandle
            /\ overlayOpacity = 0)
    /\ [][DeadLoopStep]_vars

\* the switch stopped an effect that had been started so recently that its fade-in is
\* still to come
C32_Witness ==
    /\ SwitchedToGlyphless
    /\ lastOp.op = "scrollFrame"
    /\ effectsEnabled
    /\ \/ \E k \in 1..Len(timers) : timers[k].fn = "rainFadeIn"
       \/ \E k \in 1..Len(Pending) : Pending[k].fn \in {"rainFade", "fadeIn"}

----------------------------------------------------------------------------
(* Count-up effects whose start or end text is not a number *)

\* start "N/A" and end "12"; start "" and end "-"; start "7" and end "Infinity"
DeckMalformed ==
    <<TitleCard,
      [Card("countup") EXCEPT !.start_num = <<"N", "/", "A">>, !.end_num = <<"1", "2">>],
      [Card("countup") EXCEPT !.start_num = <<>>, !.end_num = <<"-">>, !.step_decimals = 1]>>
DeckInfinity ==
    <<TitleCard,
      [Card("countup") EXCEPT !.start_num = <<"7">>, !.end_num = InfinityWord],
      [Card("countup") EXCEPT !.start_num = <<"x">>, !.end_num = <<"3", "%">>]>>

NextCount ==
    \/ \E x \in SlideStarts : UserScroll(x)
    \/ BeginLongFrame
    \/ \E rnd \in Rnd : RunScrollCallback(rnd)
    \/ RunCountUp

SpecMalformed == Loaded({DeckMalformed, DeckInfinity}, {FALSE}) /\ [][NextCount]_vars

\* the text holds no digit: the pattern of parseNumberParts finds no number in it
NoNumericContent(text) == \A k \in 1..Len(text) : text[k] \notin DigitSet
\* the text with 0 in its place if it holds no number
OrZero(text) == IF NoNumericContent(text) THEN <<"0">> ELSE text
\* slide i counts from or to a text without numeric content
MalformedCount(i) ==
    /\ Slide(Cur, i).type = "countup"
    /\ \/ NoNumericContent(substituteVariables(Slide(Cur, i).start_num, RecapData))
       \/ NoNumericContent(substituteVariables(Slide(Cur, i).end_num, RecapData))
\* the text of the frame at time units elapsed when a start or end without numeric
\* content counts as 0
ZeroedText(i, elapsed) ==
    CountUpText([Slide(Cur, i) EXCEPT
                    !.start_num = OrZero(substituteVariables(@, RecapData)),
                    !.end_num = OrZero(substituteVariables(@, RecapData))], elapsed)

\* C33: every frame of a count-up whose start or end text has no numeric content shows
\* the number counted with 0 in place of that value, and the loop ends after 1500 ms
C33_MalformedCountsAsZero ==
    [][(lastOp'.op = "countUp" /\ MalformedCount(Head(frameQ).slide)) =>
          LET cb == Head(frameQ)
          IN /\ bigText'[cb.slide + 1].text = ZeroedText(cb.slide, now - cb.startTime)
             /\ (now - cb.startTime >= CountUpDuration =>
                    \A k \in 1..Len(rafQ') : rafQ'[k] # cb)]_vars

----------------------------------------------------------------------------
(* Variable substitution in the text of a slide *)

\* the texts of at most four characters over the characters of a token, the name n
\* (present in the data record) and the character x (absent); texts with two tokens
\* and with a token opened inside another; and a token that names a property every
\* object inherits
TokenAlphabet == {"%", "{", "}", "n", "x"}
ShortTexts == UNION {[1..len -> TokenAlphabet] : len \in 0..4}
LongTexts ==
    {<<"%", "{", "n", "}", "x", "%", "{", "x", "}">>, <<"%", "{", "x", "%", "{", "n", "}">>,
     <<"%", "{", "n", "}", "%", "{", "n", "}">>, <<"%", "%", "{", "n", "x", "}", "}">>}
InheritedToken == <<"n", "%", "{">> \o (CHOOSE name \in DOMAIN ObjectPrototype : TRUE) \o <<"}", "x">>
TemplateTexts == ShortTexts \cup LongTexts \cup {InheritedToken}

\* a deck whose second slide reveals text without scroll options
DeckTemplate(text) ==
    <<TitleCard, [Card("text_reveal") EXCEPT !.reveal_text = text], Card("static")>>

NextTemplate ==
    \/ \E x \in SlideStarts : UserScroll(x)
    \/ BeginFrame(FrameStep)
    \/ \E rnd \in Rnd : RunScrollCallback(rnd)

SpecTemplate == Loaded({DeckTemplate(text) : text \in TemplateTexts}, {FALSE}) /\ [][NextTemplate]_vars

\* the end of the token %{name} that starts at position p of text, or 0 if none starts
\* there: the first "}" after the "{", with at least one character in between
TokenEnd(text, p) ==
    IF p + 1 <= Len(text) /\ text[p] = "%" /\ text[p + 1] = "{"
       /\ \E q \in (p + 3)..Len(text) : text[q] = "}" /\ \A k \in (p + 2)..(q - 1) : text[k] # "}"
    THEN CHOOSE q \in (p + 3)..Len(text) : text[q] = "}" /\ \A k \in (p + 2)..(q - 1) : text[k] # "}"
    ELSE 0

\* text from position p on, with every token whose name the record holds replaced by
\* its value and everything else copied
RECURSIVE Substituted(_, _, _)
Substituted(text, p, data) ==
    IF p > Len(text) THEN <<>>
    ELSE IF TokenEnd(text, p) = 0 THEN <<text[p]>> \o Substituted(text, p + 1, data)
    ELSE LET name == SubSeq(text, p + 2, TokenEnd(text, p) - 1)
         IN (IF name \in DOMAIN data THEN data[name] ELSE SubSeq(text, p, TokenEnd(text, p)))
            \o Substituted(text, TokenEnd(text, p) + 1, data)

\* the reveal slide has been activated and shows its final text
RevealShown == lastOp.op = "scrollFrame" /\ activeSlideIndex = 1 /\ lastOp.wrote

\* C34: the text shown is the template with every token whose name is in the data record
\* replaced by its value, every other token verbatim, and all other text unchanged
C34_TokensSubstituted ==
    RevealShown => bigText[2].text = Substituted(Slide(Cur, 1).reveal_text, 1, RecapData)

----------------------------------------------------------------------------
(* Scroll samples at a slide boundary *)

\* the scroll frame callback has processed an offset that is a multiple of the
\* slide width (the ratio offset / slideWidth is an integer k with a slide k)
BoundaryProcessed ==
    /\ lastOp.op = "scrollFrame"
    /\ ~lastOp.threw
    /\ scrollLeft % SlideWidth = 0
    /\ HasSlide(Cur, scrollLeft \div SlideWidth)

\* the active slide after a boundary sample is the slide of the boundary
BoundaryActivates ==
    BoundaryProcessed => activeSlideIndex = scrollLeft \div SlideWidth

\* C35: whenever a scroll sample at an exact slide boundary (ratio k, an integer in
\* [0, N)) has been processed, activeSlideIndex = k and targetSlideIndex = k,
\* whatever navigation steps, drags and scroll samples came before
C35_BoundarySynchronises ==
    BoundaryProcessed =>
        /\ activeSlideIndex = scrollLeft \div SlideWidth
        /\ targetSlideIndex = scrollLeft \div SlideWidth

----------------------------------------------------------------------------
(* Steps to the next slide while the strip is scrolling *)

\* steps to the next slide requested in one behaviour
MaxSteps == 4

\* a deck of four slides without animations or effects
DeckFour == DeckPlain \o <<Card("static")>>

\* the presentation at rest on slide s: the strip was scrolled to the boundary of
\* slide s and the scroll callback has processed that offset
RestingOn(cards, s, rnd) ==
    LET shown == initHorizontalScroll(Built(cards, FALSE, rnd.u), rnd)
        there == IF s = 0 THEN shown
                 ELSE scrollFrame([shown EXCEPT !.scrollLeft = s * SlideWidth], rnd)
    IN [there EXCEPT !.steps = [from |-> s, count |-> 0]]

InitSteps ==
    \E s \in 0..(Len(DeckFour) - 1), rnd \in {CHOOSE r \in Rnd : TRUE} :
        Holds(RestingOn(DeckFour, s, rnd), "scrollFrame")

\* the state in which a step to the next slide is handled
Stepping == [Input EXCEPT !.steps.count = @ + 1]

CanStep == CanInput /\ ~dragState.active /\ steps.count < MaxSteps

StepClick == CanStep /\ Commit(click(Stepping), "click")

StepKey == CanStep /\ Commit(keydown(Stepping, "ArrowRight"), "keydown")

StepNextSlide == CanStep /\ Commit(nextslide(Stepping), "nextslide")

NextSteps ==
    \/ StepClick
    \/ StepKey
    \/ StepNextSlide
    \/ \E x \in ScrollOffsets : SmoothScrollStep(x)
    \/ BeginFrame(FrameStep)
    \/ \E rnd \in Rnd : RunScrollCallback(rnd)

SpecSteps == InitSteps /\ [][NextSteps]_vars

\* no scroll is in progress and no callback is pending
AtRest ==
    /\ smoothTarget = NullIdx
    /\ ~scrollScheduled
    /\ rafQ = <<>> /\ frameQ = <<>>

\* the slide that steps.count steps from slide steps.from lead to
Destination == Min(steps.from + steps.count, NumSlides(Cur) - 1)

\* C36: from rest on slide s, n steps to the next slide issued at arbitrary moments
\* (also while the smooth scroll of an earlier step passes intermediate slides) leave
\* the presentation, once the scroll has settled, at rest on slide min(s + n, N - 1)
C36_StepsAccumulate ==
    AtRest =>
        /\ scrollLeft = Destination * SlideWidth
        /\ activeSlideIndex = Destination
        /\ targetSlideIndex = Destination

----------------------------------------------------------------------------
(* Resets and the active slide *)

\* the resets of a scroll tick spare the slide that is active when they are applied
\* (the activation of the tick comes before its reset loop)
ResetSparesActive ==
    lastOp.op = "scrollFrame" => activeSlideIndex \notin lastOp.resets

\* a step in which a slide that is in its reset state becomes the active slide
\* restarts the value animation of that slide
RevivedOnActivation ==
    (activeSlideIndex' # activeSlideIndex /\ activeSlideIndex' \in superseded)
        => /\ activeSlideIndex' \in lastOp'.restarted
           /\ activeSlideIndex' \in lastOp'.revived

\* C37: resetSlideEffect is never applied to the slide active at that moment, a slide
\* that was reset is restarted in the tick in which it next becomes the active slide,
\* and so the active slide is never left in its reset state
C37_ActiveNeverReset ==
    /\ [](ResetSparesActive /\ activeSlideIndex \notin superseded)
    /\ [][RevivedOnActivation]_vars

\* a slide that had been reset has become the active slide in a tick that reset
\* the slide it came from
C37_Witness ==
    /\ lastOp.op = "scrollFrame"
    /\ lastOp.activated
    /\ activeSlideIndex \in lastOp.revived
    /\ lastOp.resets # {}
    /\ NumSlides(Cur) >= 2

----------------------------------------------------------------------------
(* The scroll listener under several scroll events between two frames *)

\* a scroll event: the strip is at offset x (inside the scrollable range or pulled
\* past one of its ends) and the listener runs, whether or not a callback is pending
ScrollEvent(x) ==
    /\ CanInput
    /\ ~dragState.active
    /\ Commit(onScroll([Input EXCEPT !.scrollLeft = x, !.smoothTarget = NullIdx]), "scroll")

NextListener ==
    \/ \E x \in ScrollOffsets \cup OverscrollOffsets : ScrollEvent(x)
    \/ BeginFrame(FrameStep)
    \/ \E rnd \in Rnd : RunScrollCallback(rnd)

SpecListener == InitNav /\ [][NextListener]_vars

\* the scroll-processing callbacks that are pending
PendingScrolls ==
    {i \in 1..Len(rafQ \o frameQ) : (rafQ \o frameQ)[i].fn = "scroll"}

\* C38: at most one scroll-processing frame callback is pending at any time; after every
\* scroll event a callback is pending, and the callback processes the offset current
\* when it runs; scrollScheduled is cleared before the processing, so after a callback
\* that threw the flag is clear and the next scroll event schedules a callback again
C38_OneCallbackPending ==
    /\ Cardinality(PendingScrolls) <= 1
    /\ scrollScheduled <=> PendingScrolls # {}
    /\ lastOp.op = "scroll" => scrollScheduled
    /\ lastOp.op = "scrollFrame" =>
          /\ ~scrollScheduled
          /\ lastOp.threw \/ LastSample(Cur) = scrollLeft

\* the second scroll event since the last frame, in a later frame interval than the
\* first one: one callback is pending, and the strip is at an offset that has not been
\* processed yet
C38_Witness ==
    /\ lastOp.op = "scroll"
    /\ events = 2
    /\ Cardinality(PendingScrolls) = 1
    /\ LastSample(Cur) # scrollLeft
    /\ now > StartTime

----------------------------------------------------------------------------
(* Every way of moving through the presentation together *)

\* the offsets sampled: the slide boundaries, the offsets at which the slide scrolling
\* in is 80% visible, and the largest overscroll at either end
IndexOffsets ==
    {x \in ScrollOffsets \cup OverscrollOffsets : x % SlideWidth \in {0, 2, 8}}

NextIndices ==
    \/ \E x \in IndexOffsets : ScrollEvent(x)
    \/ MouseDown
    \/ \E delta \in DragDeltas : MouseMove(delta)
    \/ MouseUp
    \/ Click
    \/ \E key \in {"ArrowRight", "ArrowLeft"} : KeyDown(key)
    \/ PrevSlide
    \/ NextSlide
    \/ Resize
    \/ \E i \in 1..2, u \in {0, 1} : FireTimer(i, u)
    \/ BeginFrame(FrameStep)
    \/ \E rnd \in Rnd : RunScrollCallback(rnd)
    \/ RunSnapRestore

SpecIndices == InitNav /\ [][NextIndices]_vars

\* C39: after any sequence of scroll samples, clicks, arrow-key steps, prevslide and
\* nextslide calls, drag releases and resizes, activeSlideIndex and targetSlideIndex
\* are indices of slides of the presentation (in [0, N))
C39_IndicesInRange ==
    /\ activeSlideIndex \in 0..(NumSlides(Cur) - 1)
    /\ targetSlideIndex \in 0..(NumSlides(Cur) - 1)

\* a click with the presentation at rest on its last slide
C39_Witness ==
    /\ lastOp.op = "click"
    /\ scrollLeft = (NumSlides(Cur) - 1) * SlideWidth
    /\ smoothTarget = NullIdx
    /\ activeSlideIndex = NumSlides(Cur) - 1
    /\ targetSlideIndex = NumSlides(Cur) - 1

----------------------------------------------------------------------------
(* Value animations run to their end *)

\* frames delivered in one behaviour
MaxLoopTicks == 9

\* the time of the last frame
LastFrameTime == StartTime + MaxLoopTicks * FrameStep

\* a display refresh FrameStep after the previous one
BeginLoopFrame ==
    /\ Idle
    /\ now + FrameStep <= LastFrameTime
    /\ Commit([Cur EXCEPT !.now = now + FrameStep, !.frameQ = rafQ, !.rafQ = <<>>,
                          !.events = 0],
              "frame")

\* the viewer scrolls to a slide while the frames that remain cover the longest
\* animation the scroll can start (the scroll is processed in the next frame) and the
\* frame queue has room for the scroll callback and the two field loops of a list item
ScrollInTime(x) ==
    /\ now + FrameStep + CountUpDuration <= LastFrameTime
    /\ Len(rafQ) + 3 <= MaxPending
    /\ UserScroll(x)

NextLoops ==
    \/ \E x \in SlideStarts : ScrollInTime(x)
    \/ BeginLoopFrame
    \/ \E rnd \in Rnd : RunScrollCallback(rnd)
    \/ RunCountUp
    \/ RunTextReveal
    \/ \E u \in {0, 1} : RunCrypto(u)

SpecLoops == Loaded(ValueDecks, {FALSE}) /\ [][NextLoops]_vars

\* frames keep being delivered, and the callbacks of a frame are run
FairLoops ==
    /\ SpecLoops
    /\ WF_vars(BeginLoopFrame)
    /\ WF_vars(\E rnd \in Rnd : RunScrollCallback(rnd))
    /\ WF_vars(RunCountUp)
    /\ WF_vars(RunTextReveal)
    /\ WF_vars(\E u \in {0, 1} : RunCrypto(u))

\* the time after which a frame loop requests no further frame
LoopDuration(cb) ==
    CASE cb.fn = "countUp" -> CountUpDuration
      [] cb.fn = "textReveal" -> cb.duration
      [] cb.fn = "crypto" -> cb.startDelay + cb.duration

\* the final text of a frame loop: the end value in the format of the count-up, the
\* final resolved text of the reveal, the true text of the list field
LoopFinalText(cb) ==
    LET card == Slide(Cur, cb.slide)
        startParts == parseNumberParts(substituteVariables(card.start_num, RecapData))
        endParts == parseNumberParts(substituteVariables(card.end_num, RecapData))
        precision == Max(Max(startParts.decimals, endParts.decimals), card.step_decimals)
    IN CASE cb.fn = "countUp" ->
              (IF card.prefix # Undefined THEN card.prefix ELSE startParts.prefix)
              \o FormatNumber(endParts.mant * Pow10(precision - endParts.decimals), 1, precision)
              \o (IF card.suffix # Undefined THEN card.suffix ELSE endParts.suffix)
         [] cb.fn = "textReveal" -> substituteVariables(card.reveal_text, RecapData)
         [] cb.fn = "crypto" -> card.items[cb.item + 1][cb.field]

\* the text of the element a frame loop writes to, after the step
LoopText(cb) ==
    IF cb.fn = "crypto" THEN bigText'[cb.slide + 1].items[cb.item + 1][cb.field]
    ELSE bigText'[cb.slide + 1].text

\* a frame of a value animation: before the duration has elapsed it requests the
\* next frame; from then on it requests none and leaves the final text
LoopFrame ==
    (frameQ # <<>> /\ Head(frameQ).fn \in {"countUp", "textReveal", "crypto"}
     /\ frameQ' = Tail(frameQ))
        => IF now - Head(frameQ).startTime < LoopDuration(Head(frameQ))
           THEN Len(rafQ') = Len(rafQ) + 1
           ELSE rafQ' = rafQ /\ LoopText(Head(frameQ)) = LoopFinalText(Head(frameQ))

\* no frame loop is pending beyond its duration: a pending callback was requested
\* before the duration had elapsed
NoOverrun ==
    /\ \A i \in 1..Len(rafQ) :
          rafQ[i].fn \in {"countUp", "textReveal", "crypto"}
              => now - rafQ[i].startTime < LoopDuration(rafQ[i])
    /\ \A i \in 1..Len(frameQ) :
          frameQ[i].fn \in {"countUp", "textReveal", "crypto"}
              => now - FrameStep - frameQ[i].startTime < LoopDuration(frameQ[i])

\* C40: given that frames keep being delivered every value-animation frame loop
\* terminates: a count-up stops requesting frames once 1500 ms have elapsed, a text
\* reveal once its duration has elapsed, a crypto field once its start delay plus its
\* duration has elapsed, and the last write of each loop is its final text
C40_LoopsTerminate ==
    /\ [][LoopFrame]_vars
    /\ []NoOverrun
    /\ (ValueLoops # {}) ~> (ValueLoops = {})

\* the last frame of a count-up has run: no loop is pending and the slide shows the
\* end value
C40_Witness ==
    /\ lastOp.op = "countUp"
    /\ ValueLoops = {}
    /\ activeSlideIndex = 1
    /\ bigText[2].text = <<"$", "1", ".", "5">>

====
